---- MODULE Spec2Model ----
(***************************************************************************)
(* GeoClear python geometry engine: GeometryProcessor.process_geometries   *)
(* and the services it drives (PrecisionOverlapDetector,                   *)
(* DisplacementCalculator, TopologyPreserver, DepthAssigner).              *)
(*                                                                         *)
(* Numbers.  Coordinates, widths, clearances and vectors are floats in     *)
(* the source.  Here they are integers counting thousandths of a map unit *)
(* (1.0 = 1000), so the snap tolerance 0.1 is 100 and the junction key     *)
(* precision 0.01 is 10.  Square roots and quotients are truncated to a    *)
(* thousandth.  Severity scores are counted in hundredths.                 *)
(*                                                                         *)
(* Geometry.  shapely is not part of the repository; its operations are    *)
(* computed exactly for the lines the requests are drawn from: straight,   *)
(* axis-parallel polylines whose vertices run monotonically from the       *)
(* first to the last (such a line is the degenerate rectangle spanned by   *)
(* its bounding box, and its flat-capped buffer is a rectangle).           *)
(***************************************************************************)
EXTENDS Integers, Sequences, FiniteSets, TLC

\* ------------------------------------------------------------------------
\* Bounds of the model
\* ------------------------------------------------------------------------
MaxFeatures == 3

\* ------------------------------------------------------------------------
\* Arithmetic helpers
\* ------------------------------------------------------------------------
Abs(a) == IF a < 0 THEN -a ELSE a

Max2(a, b) == IF a >= b THEN a ELSE b

Min2(a, b) == IF a <= b THEN a ELSE b

\* a / b truncated toward zero (b > 0)
TruncDiv(a, b) == IF a >= 0 THEN a \div b ELSE -((-a) \div b)

\* one step of the digit-by-digit square root: add bit b to r if r + b fits
SqrtStep(n, r, b) ==
    IF r + b <= 46340 /\ (r + b) * (r + b) <= n THEN r + b ELSE r

\* np.sqrt, truncated: the largest r with r*r <= n (0 <= n < 2^31)
ISqrt(n) ==
    SqrtStep(n, SqrtStep(n, SqrtStep(n, SqrtStep(n,
    SqrtStep(n, SqrtStep(n, SqrtStep(n, SqrtStep(n,
    SqrtStep(n, SqrtStep(n, SqrtStep(n, SqrtStep(n,
    SqrtStep(n, SqrtStep(n, SqrtStep(n, SqrtStep(n, 0,
        32768), 16384), 8192), 4096), 2048), 1024), 512), 256),
        128), 64), 32), 16), 8), 4), 2), 1)

\* Beyond this coordinate difference a distance is not computed (it would
\* leave the integer range); every threshold of the program is far below it.
Far == 30000

\* sqrt(dx^2 + dy^2) in thousandths, Far when out of range
Hypot(dx, dy) ==
    IF Abs(dx) >= Far \/ Abs(dy) >= Far THEN Far
    ELSE Min2(Far, ISqrt(dx * dx + dy * dy))

\* ------------------------------------------------------------------------
\* FeaturePriority and FEATURE_WIDTHS
\* ------------------------------------------------------------------------
FeaturePriority ==
    {"P1_HIGHWAY", "P1_RAILWAY", "P1_RIVER", "P2_MAIN_ROAD", "P3_LOCAL_ROAD",
     "P3_STREET", "P4_BUILDING", "P4_PARK", "P5_LABEL", "P5_ICON",
     "P5_OVERLAP_AREA", "P2_ROAD"}

\* FEATURE_WIDTHS[priority], in thousandths
FEATURE_WIDTHS(p) ==
    CASE p = "P1_HIGHWAY"      -> 5000
      [] p = "P1_RAILWAY"      -> 4500
      [] p = "P1_RIVER"        -> 4000
      [] p = "P2_MAIN_ROAD"    -> 3500
      [] p = "P3_LOCAL_ROAD"   -> 3000
      [] p = "P3_STREET"       -> 2800
      [] p = "P4_BUILDING"     -> 2500
      [] p = "P4_PARK"         -> 2500
      [] p = "P5_LABEL"        -> 2000
      [] p = "P5_ICON"         -> 2000
      [] p = "P5_OVERLAP_AREA" -> 1500
      [] p = "P2_ROAD"         -> 3000

\* int(priority.split('_')[0][1]): the digit after the leading "P"
PriorityDigit(p) ==
    CASE p \in {"P1_HIGHWAY", "P1_RAILWAY", "P1_RIVER"} -> 1
      [] p \in {"P2_MAIN_ROAD", "P2_ROAD"}              -> 2
      [] p \in {"P3_LOCAL_ROAD", "P3_STREET"}           -> 3
      [] p \in {"P4_BUILDING", "P4_PARK"}               -> 4
      [] p \in {"P5_LABEL", "P5_ICON", "P5_OVERLAP_AREA"} -> 5

\* ------------------------------------------------------------------------
\* WKT text and parsing
\* ------------------------------------------------------------------------
\* A WKT string is modelled by what it says: the geometry type it names
\* (tag), its vertex list (pts) and whether it is written the way shapely
\* writes it ("LINESTRING (0 0, 1 1)", canonical) or otherwise
\* ("LINESTRING(0 0,1 1)").  tag "EMPTY" is the text "LINESTRING EMPTY".
WktText(tag, pts, canonical) == [tag |-> tag, pts |-> pts, canonical |-> canonical]

\* shapely_wkt.loads succeeds and yields a LineString (parse_wkt returns):
\* line 86 tests the type only, and "LINESTRING EMPTY" is a LineString
ParseOk(w) ==
    \/ w.tag = "EMPTY"
    \/ w.tag = "LINESTRING" /\ Len(w.pts) >= 2

\* the coordinate sequence of the parsed LineString
parse_wkt(w) == IF w.tag = "EMPTY" THEN <<>> ELSE w.pts

\* LineString.wkt: shapely's own rendering of a coordinate sequence
to_wkt(coords) ==
    WktText(IF coords = <<>> THEN "EMPTY" ELSE "LINESTRING", coords, TRUE)

\* ------------------------------------------------------------------------
\* Geometry primitives (shapely), for straight axis-parallel polylines
\* ------------------------------------------------------------------------
Pt(x, y) == <<x, y>>

RECURSIVE SeqMin(_, _)
SeqMin(s, c) ==
    IF Len(s) = 1 THEN s[1][c] ELSE Min2(s[1][c], SeqMin(Tail(s), c))

RECURSIVE SeqMax(_, _)
SeqMax(s, c) ==
    IF Len(s) = 1 THEN s[1][c] ELSE Max2(s[1][c], SeqMax(Tail(s), c))

\* the point set of a line: its bounding box
Box(coords) ==
    [x1 |-> SeqMin(coords, 1), x2 |-> SeqMax(coords, 1),
     y1 |-> SeqMin(coords, 2), y2 |-> SeqMax(coords, 2)]

PointBox(p) == [x1 |-> p[1], x2 |-> p[1], y1 |-> p[2], y2 |-> p[2]]

\* the gap between the intervals [a1, a2] and [b1, b2]
Gap(a1, a2, b1, b2) == Max2(0, Max2(b1 - a2, a1 - b2))

\* geom1.distance(geom2) for two boxes
BoxDistance(a, b) ==
    Hypot(Gap(a.x1, a.x2, b.x1, b.x2), Gap(a.y1, a.y2, b.y1, b.y2))

\* calculate_minimum_distance
calculate_minimum_distance(geom1, geom2) == BoxDistance(Box(geom1), Box(geom2))

\* Point.distance(Point)
PointDistance(p, q) == Hypot(p[1] - q[1], p[2] - q[2])

IsHorizontal(b) == b.y1 = b.y2 /\ b.x1 < b.x2

IsVertical(b) == b.x1 = b.x2 /\ b.y1 < b.y2

\* the footprint of a line with bounding box b buffered by d
BufferOfBox(b, d) ==
    IF IsHorizontal(b)
    THEN [empty |-> FALSE, x1 |-> b.x1, x2 |-> b.x2, y1 |-> b.y1 - d, y2 |-> b.y2 + d]
    ELSE IF IsVertical(b)
    THEN [empty |-> FALSE, x1 |-> b.x1 - d, x2 |-> b.x2 + d, y1 |-> b.y1, y2 |-> b.y2]
    ELSE [empty |-> TRUE, x1 |-> 0, x2 |-> 0, y1 |-> 0, y2 |-> 0]

\* line.buffer(d, cap_style=2, join_style=2): flat caps, so the footprint
\* widens the line sideways only; a line of no length has an empty footprint
BufferBox(coords, d) == BufferOfBox(Box(coords), d)

\* buffer1.intersects(buffer2): the closed footprints share a point
BuffersIntersect(a, b) ==
    /\ ~a.empty /\ ~b.empty
    /\ a.x1 <= b.x2 /\ b.x1 <= a.x2
    /\ a.y1 <= b.y2 /\ b.y1 <= a.y2

\* buffer1.intersection(buffer2).area, in thousandths of a square unit
IntersectionArea(a, b) ==
    (Max2(0, Min2(a.x2, b.x2) - Max2(a.x1, b.x1))
     * Max2(0, Min2(a.y2, b.y2) - Max2(a.y1, b.y1))) \div 1000

\* the lines with bounding boxes a and b cross
BoxesCross(a, b) ==
    \/ /\ IsHorizontal(a) /\ IsVertical(b)
       /\ a.x1 < b.x1 /\ b.x1 < a.x2
       /\ b.y1 < a.y1 /\ a.y1 < b.y2
    \/ /\ IsVertical(a) /\ IsHorizontal(b)
       /\ b.x1 < a.x1 /\ a.x1 < b.x2
       /\ a.y1 < b.y1 /\ b.y1 < a.y2

\* line1.crosses(line2): the interiors meet in a point; an endpoint of either
\* line lying on the other is a touch, and collinear overlap is not a crossing
LineCrosses(c1, c2) == BoxesCross(Box(c1), Box(c2))

\* line1.intersection(line2) of two crossing lines: one point
BoxCrossingPoints(a, b) ==
    IF IsHorizontal(a) THEN << Pt(b.x1, a.y1) >> ELSE << Pt(a.x1, b.y1) >>

CrossingPoints(c1, c2) == BoxCrossingPoints(Box(c1), Box(c2))

\* segment lengths of an axis-parallel polyline
SegLen(p, q) == Abs(q[1] - p[1]) + Abs(q[2] - p[2])

RECURSIVE LineLength(_)
LineLength(coords) ==
    IF Len(coords) < 2 THEN 0
    ELSE SegLen(coords[1], coords[2]) + LineLength(Tail(coords))

RECURSIVE WeightedMidSum(_, _)
WeightedMidSum(coords, c) ==
    IF Len(coords) < 2 THEN 0
    ELSE SegLen(coords[1], coords[2]) * (coords[1][c] + coords[2][c])
         + WeightedMidSum(Tail(coords), c)

\* line.centroid: the length-weighted mean of the segment midpoints
Centroid(coords) ==
    IF Len(coords) = 2 \/ LineLength(coords) = 0
    THEN Pt((coords[1][1] + coords[Len(coords)][1]) \div 2,
            (coords[1][2] + coords[Len(coords)][2]) \div 2)
    ELSE Pt(WeightedMidSum(coords, 1) \div (2 * LineLength(coords)),
            WeightedMidSum(coords, 2) \div (2 * LineLength(coords)))

\* ------------------------------------------------------------------------
\* PrecisionOverlapDetector
\* ------------------------------------------------------------------------
\* A detector object: PrecisionOverlapDetector(min_clearance, strict_mode)
PrecisionOverlapDetector(min_clearance, strict_mode) ==
    [min_clearance |-> min_clearance, strict_mode |-> strict_mode]

get_feature_width(feature) == FEATURE_WIDTHS(feature.priority)

\* get_feature_buffer: buffer by half the display width (buffer_scale 1.0)
get_feature_buffer(feature) ==
    BufferBox(parse_wkt(feature.wkt), get_feature_width(feature) \div 2)

\* check_buffer_overlap, given the two footprints
BufferOverlapOf(det, buffer1, buffer2) ==
    IF BuffersIntersect(buffer1, buffer2)
       /\ (det.strict_mode \/ IntersectionArea(buffer1, buffer2) > 0)
    THEN [fired |-> TRUE, overlap_area |-> IntersectionArea(buffer1, buffer2)]
    ELSE [fired |-> FALSE, overlap_area |-> 0]

\* check_buffer_overlap -> (has_conflict, overlap_area)
check_buffer_overlap(det, feature1, feature2) ==
    BufferOverlapOf(det, get_feature_buffer(feature1), get_feature_buffer(feature2))

\* (width1 / 2) + (width2 / 2) + min_clearance
RequiredClearance(det, feature1, feature2) ==
    (get_feature_width(feature1) \div 2) + (get_feature_width(feature2) \div 2)
    + det.min_clearance

\* a proximity test against half the required clearance
proximity_at_half(min_distance, required_clearance) ==
    [fired |-> 2 * min_distance < required_clearance, min_distance |-> min_distance]

\* min_distance < required_clearance -> (True, min_distance, p1)
ProximityOf(min_distance, required_clearance) ==
    [fired |-> min_distance < required_clearance, min_distance |-> min_distance]

\* check_centerline_proximity -> (has_conflict, min_distance)
check_centerline_proximity(det, feature1, feature2) ==
    ProximityOf(calculate_minimum_distance(parse_wkt(feature1.wkt),
                                           parse_wkt(feature2.wkt)),
                RequiredClearance(det, feature1, feature2))

\* check_crossing_conflict -> (has_conflict, crossing_points)
check_crossing_conflict(det, feature1, feature2) ==
    IF LineCrosses(parse_wkt(feature1.wkt), parse_wkt(feature2.wkt))
    THEN [fired |-> TRUE,
          crossing_points |-> CrossingPoints(parse_wkt(feature1.wkt),
                                             parse_wkt(feature2.wkt))]
    ELSE [fired |-> FALSE, crossing_points |-> <<>>]

\* np.degrees(np.arctan2(dy, dx)) in whole degrees, for an axis-parallel (dx, dy)
Bearing(dx, dy) ==
    CASE dy = 0 /\ dx >= 0 -> 0
      [] dy = 0 /\ dx < 0  -> 180
      [] dy > 0            -> 90
      [] dy < 0            -> -90

\* get_orientation: the bearing of the first-to-last vector
get_orientation(coords) ==
    Bearing(coords[Len(coords)][1] - coords[1][1],
            coords[Len(coords)][2] - coords[1][2])

\* angle_diff = abs(angle1 - angle2); angle_diff = min(angle_diff, 180 - angle_diff)
FoldAngle(angle1, angle2) ==
    Min2(Abs(angle1 - angle2), 180 - Abs(angle1 - angle2))

\* default of check_parallel_conflict's angle_threshold, in degrees
AngleThreshold == 15

\* check_parallel_conflict, given the folded angle and the distance
ParallelOf(angle_diff, min_distance, required_clearance) ==
    IF angle_diff <= AngleThreshold /\ min_distance < required_clearance
    THEN [fired |-> TRUE, angle_difference |-> angle_diff,
          parallel_distance |-> min_distance]
    ELSE [fired |-> FALSE, angle_difference |-> angle_diff,
          parallel_distance |-> 0]

\* check_parallel_conflict -> (has_conflict, angle_difference, parallel_distance)
check_parallel_conflict(det, feature1, feature2) ==
    ParallelOf(FoldAngle(get_orientation(parse_wkt(feature1.wkt)),
                         get_orientation(parse_wkt(feature2.wkt))),
               calculate_minimum_distance(parse_wkt(feature1.wkt),
                                          parse_wkt(feature2.wkt)),
               RequiredClearance(det, feature1, feature2))

\* the distances among ds that are below the clearance, in order
RECURSIVE Below(_, _)
Below(ds, limit) ==
    IF ds = <<>> THEN <<>>
    ELSE IF Head(ds) < limit THEN <<Head(ds)>> \o Below(Tail(ds), limit)
    ELSE Below(Tail(ds), limit)

\* the eight distances check_endpoint_conflict measures, in its order:
\* for each endpoint of line1 the two endpoints of line2 and line2 itself,
\* then each endpoint of line2 against line1
EndpointDistances(line1, s1, e1, line2, s2, e2) ==
    << PointDistance(s1, s2), PointDistance(s1, e2),
       BoxDistance(PointBox(s1), Box(line2)),
       PointDistance(e1, s2), PointDistance(e1, e2),
       BoxDistance(PointBox(e1), Box(line2)),
       BoxDistance(PointBox(s2), Box(line1)),
       BoxDistance(PointBox(e2), Box(line1)) >>

EndpointOf(close) == [fired |-> Len(close) > 0, endpoint_distances |-> close]

\* max(width1, width2) / 2.0 + min_clearance
EndpointClearance(det, feature1, feature2) ==
    (Max2(get_feature_width(feature1), get_feature_width(feature2)) \div 2)
    + det.min_clearance

\* check_endpoint_conflict, given the two lines
EndpointConflictOf(line1, line2, required_clearance) ==
    EndpointOf(Below(EndpointDistances(line1, line1[1], line1[Len(line1)],
                                       line2, line2[1], line2[Len(line2)]),
                     required_clearance))

\* check_endpoint_conflict -> (has_conflict, distances of the close pairs)
check_endpoint_conflict(det, feature1, feature2) ==
    EndpointConflictOf(parse_wkt(feature1.wkt), parse_wkt(feature2.wkt),
                       EndpointClearance(det, feature1, feature2))

\* 10.0 / (d + epsilon) and 5.0 / (d + epsilon) with epsilon = 1e-6, in hundredths
InverseScore(weight, d) == (weight * 100000000) \div (d * 1000 + 1)

\* nearest_points raises ValueError on an empty geometry, so
\* detect_all_conflicts raises for a pair with an empty line
DetectRaises(feature1, feature2) ==
    parse_wkt(feature1.wkt) = <<>> \/ parse_wkt(feature2.wkt) = <<>>

\* a conflicts_detected list that stops at the first check that fired
first_finding_only(bo, cp, cr, pa, ep) ==
    IF bo.fired
    THEN << [type |-> "BUFFER_OVERLAP", overlap_area |-> bo.overlap_area] >>
    ELSE IF cp.fired
    THEN << [type |-> "CENTERLINE_PROXIMITY", minimum_distance |-> cp.min_distance] >>
    ELSE IF cr.fired
    THEN << [type |-> "CROSSING_CONFLICT", crossing_points |-> cr.crossing_points] >>
    ELSE IF pa.fired
    THEN << [type |-> "PARALLEL_CONFLICT", angle_difference |-> pa.angle_difference,
             parallel_distance |-> pa.parallel_distance] >>
    ELSE IF ep.fired
    THEN << [type |-> "ENDPOINT_CONFLICT", endpoint_distances |-> ep.endpoint_distances] >>
    ELSE <<>>

\* the conflicts_detected list, in the order the checks run
FindingsOf(bo, cp, cr, pa, ep) ==
    (IF bo.fired
     THEN << [type |-> "BUFFER_OVERLAP", overlap_area |-> bo.overlap_area] >>
     ELSE <<>>)
    \o (IF cp.fired
        THEN << [type |-> "CENTERLINE_PROXIMITY",
                 minimum_distance |-> cp.min_distance] >>
        ELSE <<>>)
    \o (IF cr.fired
        THEN << [type |-> "CROSSING_CONFLICT",
                 crossing_points |-> cr.crossing_points] >>
        ELSE <<>>)
    \o (IF pa.fired
        THEN << [type |-> "PARALLEL_CONFLICT",
                 angle_difference |-> pa.angle_difference,
                 parallel_distance |-> pa.parallel_distance] >>
        ELSE <<>>)
    \o (IF ep.fired
        THEN << [type |-> "ENDPOINT_CONFLICT",
                 endpoint_distances |-> ep.endpoint_distances] >>
        ELSE <<>>)

\* severity_score, in hundredths
SeverityOf(bo, cp, cr, pa, ep) ==
    (IF bo.fired THEN bo.overlap_area \div 10 ELSE 0)
    + (IF cp.fired THEN InverseScore(10, cp.min_distance) ELSE 0)
    + (IF cr.fired THEN Len(cr.crossing_points) * 2000 ELSE 0)
    + (IF pa.fired THEN InverseScore(5, pa.parallel_distance) ELSE 0)
    + (IF ep.fired THEN Len(ep.endpoint_distances) * 500 ELSE 0)

\* a conflict dictionary that is flagged whatever the checks found
always_conflict_record(feature1, feature2, bo, cp, cr, pa, ep) ==
    [feature_pair |-> <<feature1.id, feature2.id>>,
     feature_priorities |-> <<feature1.priority, feature2.priority>>,
     feature_widths |-> <<FEATURE_WIDTHS(feature1.priority),
                          FEATURE_WIDTHS(feature2.priority)>>,
     conflicts_detected |-> <<>>,
     has_any_conflict |-> TRUE,
     severity_score |-> 0]

\* the dictionary detect_all_conflicts returns, given what the checks found
ConflictRecord(feature1, feature2, bo, cp, cr, pa, ep) ==
    [feature_pair |-> <<feature1.id, feature2.id>>,
     feature_priorities |-> <<feature1.priority, feature2.priority>>,
     feature_widths |-> <<get_feature_width(feature1), get_feature_width(feature2)>>,
     conflicts_detected |-> FindingsOf(bo, cp, cr, pa, ep),
     has_any_conflict |-> bo.fired \/ cp.fired \/ cr.fired \/ pa.fired \/ ep.fired,
     severity_score |-> SeverityOf(bo, cp, cr, pa, ep)]

\* detect_all_conflicts: all five checks, each run whatever the others found
detect_all_conflicts(det, feature1, feature2) ==
    ConflictRecord(feature1, feature2,
                   check_buffer_overlap(det, feature1, feature2),
                   check_centerline_proximity(det, feature1, feature2),
                   check_crossing_conflict(det, feature1, feature2),
                   check_parallel_conflict(det, feature1, feature2),
                   check_endpoint_conflict(det, feature1, feature2))

\* a tie rule that moves the first id of the pair instead of the second
first_on_tie(feature_ids, priority1, priority2) ==
    IF priority1 < priority2 THEN feature_ids[2] ELSE feature_ids[1]

\* a priority rule that ignores the ranks and moves the first id of the pair
first_id_moves(overlap) == overlap.feature_pair[1]

\* the mover chosen by the severity score
severity_decides(overlap) ==
    IF overlap.severity_score > 0 THEN overlap.feature_pair[1]
    ELSE overlap.feature_pair[2]

\* the mover of a pair with priority digits priority1 and priority2
MoverOf(feature_ids, priority1, priority2) ==
    IF priority1 < priority2 THEN feature_ids[2]
    ELSE IF priority2 < priority1 THEN feature_ids[1]
    ELSE feature_ids[2]

\* get_conflict_priority: the id of the feature to displace
get_conflict_priority(overlap) ==
    MoverOf(overlap.feature_pair,
            PriorityDigit(overlap.feature_priorities[1]),
            PriorityDigit(overlap.feature_priorities[2]))

\* calculate_displacement_distance: np.sqrt(overlap_area) + self.min_clearance
\* (overlap_area in thousandths of a square unit, the result in thousandths)
calculate_displacement_distance(det, overlap_area) ==
    ISqrt(overlap_area * 1000) + det.min_clearance

\* ------------------------------------------------------------------------
\* DisplacementCalculator
\* ------------------------------------------------------------------------
DisplacementCalculator(repulsion_strength) == [repulsion_strength |-> repulsion_strength]

\* the normalised direction times the force: strength / (distance + 0.1)
ForceVector(calc, dx, dy, distance) ==
    << TruncDiv(TruncDiv(dx * 1000, distance)
                * ((calc.repulsion_strength * 1000) \div (distance + 100)), 1000),
       TruncDiv(TruncDiv(dy * 1000, distance)
                * ((calc.repulsion_strength * 1000) \div (distance + 100)), 1000) >>

\* the force along the centroid vector also when the centroids coincide
no_fallback(calc, dx, dy, distance) ==
    IF distance = 0 THEN <<0, 0>> ELSE ForceVector(calc, dx, dy, distance)

\* centroids closer than 0.01: direction (1, 0) at distance 1
RepulsionOf(calc, dx, dy, distance) ==
    IF distance < 10 THEN ForceVector(calc, 1000, 0, 1000)
    ELSE ForceVector(calc, dx, dy, distance)

\* the vector from centroid1 to centroid2 and its length
RepulsionBetween(calc, centroid1, centroid2) ==
    RepulsionOf(calc, centroid2[1] - centroid1[1], centroid2[2] - centroid1[2],
                Hypot(centroid2[1] - centroid1[1], centroid2[2] - centroid1[2]))

\* a vector that pulls line2 towards line1
attraction_vector(calc, line1, line2) ==
    RepulsionBetween(calc, Centroid(line2), Centroid(line1))

\* calculate_repulsion_vector(line1 stays, line2 moves) -> (dx, dy)
calculate_repulsion_vector(calc, line1, line2) ==
    RepulsionBetween(calc, Centroid(line1), Centroid(line2))

\* scale = displacement_distance / current_magnitude, applied if magnitude > 0
ScaleTo(v, current_magnitude, displacement_distance) ==
    IF current_magnitude > 0
    THEN << TruncDiv(v[1] * displacement_distance, current_magnitude),
            TruncDiv(v[2] * displacement_distance, current_magnitude) >>
    ELSE v

\* the repulsion vector as it is, not rescaled
unscaled(v, displacement_distance) == v

Rescale(v, displacement_distance) ==
    ScaleTo(v, Hypot(v[1], v[2]), displacement_distance)

\* calculate_displacement_for_pair: the repulsion vector rescaled to
\* displacement_distance (left as it is when its magnitude is 0)
calculate_displacement_for_pair(calc, fixed_feature, moving_feature, displacement_distance) ==
    Rescale(calculate_repulsion_vector(calc, parse_wkt(fixed_feature.wkt),
                                       parse_wkt(moving_feature.wkt)),
            displacement_distance)

\* the per-conflict vectors of displace_feature's loop, in conflict order
RECURSIVE DisplacementVectors(_, _, _)
DisplacementVectors(calc, moving_feature, conflict_features) ==
    IF conflict_features = <<>> THEN <<>>
    ELSE << calculate_displacement_for_pair(calc, Head(conflict_features).feature,
                moving_feature, Head(conflict_features).clearance_violation) >>
         \o DisplacementVectors(calc, moving_feature, Tail(conflict_features))

\* the mean of the components instead of their sum
RECURSIVE mean_component(_, _)
mean_component(vectors, c) ==
    IF vectors = <<>> THEN 0
    ELSE (Head(vectors)[c] + Len(Tail(vectors)) * mean_component(Tail(vectors), c))
         \div Len(vectors)

\* sum(d[c] for d in vectors)
RECURSIVE SumComponent(_, _)
SumComponent(vectors, c) ==
    IF vectors = <<>> THEN 0
    ELSE Head(vectors)[c] + SumComponent(Tail(vectors), c)

\* the coordinates shifted twice by the vector
translate_twice(coords, dx, dy) ==
    [n \in 1..Len(coords) |-> <<coords[n][1] + 2 * dx, coords[n][2] + 2 * dy>>]

\* [(x + dx, y + dy) for x, y in coords]
Translate(coords, dx, dy) ==
    [n \in 1..Len(coords) |-> Pt(coords[n][1] + dx, coords[n][2] + dy)]

\* total_dx, total_dy = the sums; every coordinate shifted by them
ApplyVectors(geometry, displacement_vectors) ==
    [geometry |-> Translate(geometry, SumComponent(displacement_vectors, 1),
                            SumComponent(displacement_vectors, 2)),
     history |-> displacement_vectors]

\* displace_feature -> (displaced_geometry, displacement_history)
displace_feature(calc, feature_dict, conflict_features) ==
    IF conflict_features = <<>>
    THEN [geometry |-> feature_dict.geometry, history |-> <<>>]
    ELSE ApplyVectors(feature_dict.geometry,
                      DisplacementVectors(calc, feature_dict.feature, conflict_features))

\* calculate_displacement_magnitude
calculate_displacement_magnitude(v) == Hypot(v[1], v[2])

\* ------------------------------------------------------------------------
\* TopologyPreserver
\* ------------------------------------------------------------------------
\* TopologyPreserver(snap_tolerance=0.1), as process_geometries builds it
SnapTolerance == 100

\* round(v, 2): to the nearest hundredth
Round2(v) == 10 * ((v + 5) \div 10)

\* _point_to_key
point_to_key(p) == Pt(Round2(p[1]), Round2(p[2]))

\* the keys find_junctions registers, in registration order:
\* start and end of every feature
RECURSIVE EndpointKeys(_)
EndpointKeys(features) ==
    IF features = <<>> THEN <<>>
    ELSE << point_to_key(Head(features).geometry[1]),
            point_to_key(Head(features).geometry[Len(Head(features).geometry)]) >>
         \o EndpointKeys(Tail(features))

CountOf(keys, key) == Cardinality({n \in 1..Len(keys) : keys[n] = key})

\* the least number of feature ids registered at a key that makes it a junction
JunctionMinEndpoints == 2

\* a junction test that accepts every registered key
is_first_registration(keys, n) ==
    \A n2 \in 1..(n - 1) : keys[n2] # keys[n]

\* a key is registered at position n for the first time, with enough endpoints
IsJunctionAt(keys, n) ==
    /\ \A n2 \in 1..(n - 1) : keys[n2] # keys[n]
    /\ CountOf(keys, keys[n]) >= JunctionMinEndpoints

RECURSIVE JunctionsFrom(_, _)
JunctionsFrom(keys, n) ==
    IF n > Len(keys) THEN <<>>
    ELSE (IF IsJunctionAt(keys, n) THEN <<keys[n]>> ELSE <<>>)
         \o JunctionsFrom(keys, n + 1)

\* find_junctions: the keys with two or more registered endpoints, in the
\* order the dictionary holds them (first registration)
find_junctions(features) == JunctionsFrom(EndpointKeys(features), 1)

\* point.distance(junction_point) < snap_tolerance
Near(p, q, tolerance) == PointDistance(p, q) < tolerance

\* the loop of snap_endpoints_to_junctions for one endpoint: every junction
\* within tolerance overwrites the one found before; <<>> when none is
RECURSIVE JunctionFor(_, _, _, _)
JunctionFor(p, junction_points, tolerance, found) ==
    IF junction_points = <<>> THEN found
    ELSE JunctionFor(p, Tail(junction_points), tolerance,
                     IF Near(p, Head(junction_points), tolerance)
                     THEN <<Head(junction_points)>> ELSE found)

\* new_coords with the start and the end replaced by their junctions, if any
SnapTo(new_coords, start_junction, end_junction) ==
    [n \in 1..Len(new_coords) |->
        IF n = Len(new_coords) /\ end_junction # <<>> THEN end_junction[1]
        ELSE IF n = 1 /\ start_junction # <<>> THEN start_junction[1]
        ELSE new_coords[n]]

\* snap_endpoints_to_junctions
snap_endpoints_to_junctions(tolerance, displaced_geometry, original_geometry, junction_points) ==
    SnapTo(displaced_geometry,
           JunctionFor(original_geometry[1], junction_points, tolerance, <<>>),
           JunctionFor(original_geometry[Len(original_geometry)], junction_points,
                       tolerance, <<>>))

\* preserve_connectivity
preserve_connectivity(tolerance, displaced_geometry, original_geometry, junction_points) ==
    snap_endpoints_to_junctions(tolerance, displaced_geometry, original_geometry,
                                junction_points)

\* a feature of displaced_features connects at a junction
ConnectsAt(geometry, junction_point, tolerance) ==
    \/ Near(geometry[1], junction_point, tolerance)
    \/ Near(geometry[Len(geometry)], junction_point, tolerance)

\* every junction keeps at least two connected features
AllConnected(tolerance, orig_junctions, displaced_features) ==
    \A n \in 1..Len(orig_junctions) :
        Cardinality({f \in 1..Len(displaced_features) :
            ConnectsAt(displaced_features[f].geometry, orig_junctions[n], tolerance)})
        >= 2

\* validate_topology
validate_topology(tolerance, original_features, displaced_features) ==
    AllConnected(tolerance, find_junctions(original_features), displaced_features)

\* ------------------------------------------------------------------------
\* Requests
\* ------------------------------------------------------------------------
\* None and an object reference, for the service fields of GeometryProcessor
None == <<>>

Some(x) == <<x>>

\* ids of the features of a request, by position (unique)
FeatureIds == <<"f1", "f2", "f3", "f4", "f5", "f6">>

Line2(x1, y1, x2, y2) == << Pt(x1, y1), Pt(x2, y2) >>

\* The features requests are made of: a WKT text and a priority each.
\*  1-3  three parallel horizontal lines, 2 apart (ranks 1, 2, 3)
\*  4    the third line again with rank 1 (the middle line is then pushed
\*       from both sides)
\*  5    a line far from all others
\*  6    a vertical line starting 0.004 off the start of line 1
\*  7    a short line with both endpoints in the key cell (0.10, 0.00)
\*  8    text that is no LINESTRING
\*  9    "LINESTRING EMPTY"
\*  10   a LINESTRING with a single vertex
Catalogue ==
    { [wkt |-> WktText("LINESTRING", Line2(0, 0, 10000, 0), TRUE),
       priority |-> "P1_HIGHWAY"],
      [wkt |-> WktText("LINESTRING",
                       << Pt(0, 2000), Pt(5000, 2000), Pt(10000, 2000) >>, FALSE),
       priority |-> "P2_MAIN_ROAD"],
      [wkt |-> WktText("LINESTRING", Line2(0, 4000, 10000, 4000), TRUE),
       priority |-> "P3_LOCAL_ROAD"],
      [wkt |-> WktText("LINESTRING", Line2(0, 4000, 10000, 4000), TRUE),
       priority |-> "P1_HIGHWAY"],
      [wkt |-> WktText("LINESTRING", Line2(0, 20000, 10000, 20000), FALSE),
       priority |-> "P2_ROAD"],
      [wkt |-> WktText("LINESTRING", Line2(4, 0, 4, 10000), TRUE),
       priority |-> "P5_LABEL"],
      [wkt |-> WktText("LINESTRING", Line2(100, 0, 102, 0), TRUE),
       priority |-> "P1_RIVER"],
      [wkt |-> WktText("POINT", << Pt(0, 0) >>, TRUE),
       priority |-> "P2_ROAD"],
      [wkt |-> WktText("EMPTY", <<>>, TRUE),
       priority |-> "P2_ROAD"],
      [wkt |-> WktText("LINESTRING", << Pt(0, 0) >>, TRUE),
       priority |-> "P3_STREET"] }

\* GeometryRequest.min_clearance (default 2.0) and force_strength (default 1.0)
DefaultMinClearance == 2000

DefaultForceStrength == 1000

FeatureLists ==
    UNION { { [i \in 1..n |-> [id |-> FeatureIds[i], wkt |-> t[i].wkt,
                               priority |-> t[i].priority]]
              : t \in [1..n -> Catalogue] }
            : n \in 0..MaxFeatures }

Requests ==
    { [features |-> fs, min_clearance |-> DefaultMinClearance,
       force_strength |-> DefaultForceStrength, enable_3d_depth |-> d]
      : fs \in FeatureLists, d \in BOOLEAN }

\* precision_detector = PrecisionOverlapDetector(strict_mode=True), built when
\* routes.py is imported: min_clearance takes the constructor's default 2.0
ModuleDetector == PrecisionOverlapDetector(DefaultMinClearance, TRUE)

\* ------------------------------------------------------------------------
\* GeometryProcessor.process_geometries, one call
\* ------------------------------------------------------------------------
VARIABLES
    request,                     \* the GeometryRequest of the call
    pc,                          \* where the call is
    error,                       \* the exception that ended it, or "none"
    precision_overlap_detector,  \* self.precision_overlap_detector
    displacement_calculator,     \* self.displacement_calculator
    parsed_features,             \* _parse_features(request.features)
    i, j,                        \* detect_overlaps: the pair examined next
    pair_count,                  \* detect_overlaps: pairs examined
    overlaps,                    \* the conflict records found
    junctions,                   \* find_junctions(parsed_features)
    k,                           \* _calculate_displacements: overlap grouped next
    features_to_displace,        \* mover id -> its conflict records
    m,                           \* _calculate_displacements: feature handled next
    displacement_results,        \* the results dict, in insertion order
    depth_metadata,              \* assign_depth_metadata's dict, or {}
    result_args,                 \* what _build_results passes to DisplacementResult
    response,                    \* the GeometryResponse returned, or None
    calls,                       \* calls running side by side on one processor
    precision_detector           \* the module-level detector of routes.py

vars == <<request, pc, error, precision_overlap_detector, displacement_calculator,
          parsed_features, i, j, pair_count, overlaps, junctions, k,
          features_to_displace, m, displacement_results, depth_metadata,
          result_args, response, calls, precision_detector>>

NumFeatures == Len(request.features)

\* GeometryProcessor.__init__ and the arrival of a request
Init ==
    /\ request \in Requests
    /\ pc = "start"
    /\ error = "none"
    /\ precision_overlap_detector = None
    /\ displacement_calculator = None
    /\ parsed_features = <<>>
    /\ i = 1
    /\ j = 2
    /\ pair_count = 0
    /\ overlaps = <<>>
    /\ junctions = <<>>
    /\ k = 1
    /\ features_to_displace = <<>>
    /\ m = 1
    /\ displacement_results = <<>>
    /\ depth_metadata = <<>>
    /\ result_args = <<>>
    /\ response = None
    /\ calls = <<>>
    /\ precision_detector = ModuleDetector

\* an exception leaves process_geometries: nothing is returned
Raise(exception) ==
    /\ pc' = "error"
    /\ error' = exception

\* _parse_features
parse_features(features) ==
    [n \in 1..Len(features) |->
        [feature |-> features[n], geometry |-> parse_wkt(features[n].wkt)]]

\* process_geometries up to the end of _parse_features
Start ==
    /\ pc = "start"
    /\ precision_overlap_detector' =
           Some(PrecisionOverlapDetector(request.min_clearance, TRUE))
    /\ displacement_calculator' = Some(DisplacementCalculator(request.force_strength))
    /\ IF \A n \in 1..NumFeatures : ParseOk(request.features[n].wkt)
       THEN /\ parsed_features' = parse_features(request.features)
            /\ pc' = "detect"
            /\ error' = error
       ELSE /\ Raise("ValueError")
            /\ parsed_features' = parsed_features
    /\ UNCHANGED <<calls, precision_detector, request, i, j, pair_count, overlaps, junctions, k,
                   features_to_displace, m, displacement_results, depth_metadata,
                   result_args, response>>

\* a detection loop that examines the pairs of the first feature only
has_first_row_pair == i = 1 /\ j <= NumFeatures

\* detect_overlaps: a pair (i, j) is left to examine
HasPair == i < NumFeatures /\ j <= NumFeatures

\* detect_overlaps: one turn of the inner loop
DetectPair ==
    /\ pc = "detect"
    /\ HasPair
    /\ LET feature1 == request.features[i]
           feature2 == request.features[j]
           conflict_result ==
               detect_all_conflicts(precision_overlap_detector[1], feature1, feature2)
       IN  IF DetectRaises(feature1, feature2)
           THEN /\ Raise("ValueError")
                /\ UNCHANGED <<i, j, pair_count, overlaps>>
           ELSE /\ pair_count' = pair_count + 1
                /\ overlaps' = IF conflict_result.has_any_conflict
                               THEN Append(overlaps, conflict_result)
                               ELSE overlaps
                /\ i' = IF j < NumFeatures THEN i ELSE i + 1
                /\ j' = IF j < NumFeatures THEN j + 1 ELSE i + 2
                /\ UNCHANGED <<pc, error>>
    /\ UNCHANGED <<calls, precision_detector, request, precision_overlap_detector, displacement_calculator,
                   parsed_features, junctions, k, features_to_displace, m,
                   displacement_results, depth_metadata, result_args, response>>

\* detect_overlaps after the loops: the summary divides by pair_count
DetectSummary ==
    /\ pc = "detect"
    /\ ~HasPair
    /\ IF pair_count = 0
       THEN Raise("ZeroDivisionError")
       ELSE pc' = "junctions" /\ error' = error
    /\ UNCHANGED <<calls, precision_detector, request, precision_overlap_detector, displacement_calculator,
                   parsed_features, i, j, pair_count, overlaps, junctions, k,
                   features_to_displace, m, displacement_results, depth_metadata,
                   result_args, response>>

\* process_geometries step 2
FindJunctions ==
    /\ pc = "junctions"
    /\ junctions' = find_junctions(parsed_features)
    /\ pc' = IF overlaps = <<>> THEN "displace" ELSE "group"
    /\ UNCHANGED <<calls, precision_detector, request, error, precision_overlap_detector, displacement_calculator,
                   parsed_features, i, j, pair_count, overlaps, k,
                   features_to_displace, m, displacement_results, depth_metadata,
                   result_args, response>>

\* features_to_displace[displaced_id].append(overlap)
AddConflict(grouped, displaced_id, overlap) ==
    IF displaced_id \in DOMAIN grouped
    THEN [grouped EXCEPT ![displaced_id] = Append(@, overlap)]
    ELSE grouped @@ (displaced_id :> <<overlap>>)

\* _calculate_displacements: one turn of the grouping loop
GroupOverlap ==
    /\ pc = "group"
    /\ k <= Len(overlaps)
    /\ features_to_displace' =
           AddConflict(features_to_displace, get_conflict_priority(overlaps[k]),
                       overlaps[k])
    /\ k' = k + 1
    /\ pc' = IF k = Len(overlaps) THEN "displace" ELSE "group"
    /\ UNCHANGED <<calls, precision_detector, request, error, precision_overlap_detector, displacement_calculator,
                   parsed_features, i, j, pair_count, overlaps, junctions, m,
                   displacement_results, depth_metadata, result_args, response>>

\* feature_map[feature_id]: the last parsed feature with that id
feature_map(parsed, feature_id) ==
    parsed[CHOOSE n \in 1..Len(parsed) :
              /\ parsed[n].feature.id = feature_id
              /\ \A n2 \in (n + 1)..Len(parsed) : parsed[n2].feature.id # feature_id]

\* the other id of a conflict's pair
OtherId(conflict, feature_id) ==
    IF conflict.feature_pair[1] = feature_id
    THEN conflict.feature_pair[2] ELSE conflict.feature_pair[1]

\* a results dictionary that puts a new entry first
put_first(dict, info) == <<info>> \o dict

\* results[feature_id] = info
DictPut(dict, info) ==
    IF \E n \in 1..Len(dict) : dict[n].feature_id = info.feature_id
    THEN [n \in 1..Len(dict) |->
             IF dict[n].feature_id = info.feature_id THEN info ELSE dict[n]]
    ELSE Append(dict, info)

\* other_feat_dict and the clearance for each conflict of a mover
ConflictFeatures(det, parsed, feature_id, conflicts) ==
    [c \in 1..Len(conflicts) |->
        [geometry |-> feature_map(parsed, OtherId(conflicts[c], feature_id)).geometry,
         feature |-> feature_map(parsed, OtherId(conflicts[c], feature_id)).feature,
         clearance_violation |-> det.min_clearance]]

\* results[feature_id] for a mover, given what displace_feature returned
MoverInfo(feat_dict, conflicts, displaced, junction_points) ==
    [feature_id |-> feat_dict.feature.id,
     feature |-> feat_dict.feature,
     original_geometry |-> feat_dict.geometry,
     displaced_geometry |->
         preserve_connectivity(SnapTolerance, displaced.geometry, feat_dict.geometry,
                               junction_points),
     was_displaced |-> TRUE,
     displacement_vector |-> << SumComponent(displaced.history, 1),
                                SumComponent(displaced.history, 2) >>,
     displacement_magnitude |->
         calculate_displacement_magnitude(<< SumComponent(displaced.history, 1),
                                             SumComponent(displaced.history, 2) >>),
     conflicts |-> conflicts,
     \* locals of the loop body, kept for inspection
     translated_geometry |-> displaced.geometry,
     displacement_history |-> displaced.history]

\* the entry of results for a feature with conflicts to move away from
DisplacedInfo(det, calc, parsed, junction_points, feat_dict, conflicts) ==
    MoverInfo(feat_dict, conflicts,
              displace_feature(calc, feat_dict,
                  ConflictFeatures(det, parsed, feat_dict.feature.id, conflicts)),
              junction_points)

\* an entry for a feature without conflicts whose geometry is nudged
nudged_info(feat_dict) ==
    [feature_id |-> feat_dict.feature.id,
     feature |-> feat_dict.feature,
     original_geometry |-> feat_dict.geometry,
     displaced_geometry |->
         [n \in 1..Len(feat_dict.geometry) |->
             <<feat_dict.geometry[n][1] + 1, feat_dict.geometry[n][2]>>],
     was_displaced |-> FALSE,
     displacement_vector |-> <<0, 0>>,
     displacement_magnitude |-> 0,
     conflicts |-> <<>>,
     translated_geometry |-> feat_dict.geometry,
     displacement_history |-> <<>>]

\* the entry of results for a feature that is no mover
UndisplacedInfo(feat_dict) ==
    [feature_id |-> feat_dict.feature.id,
     feature |-> feat_dict.feature,
     original_geometry |-> feat_dict.geometry,
     displaced_geometry |-> feat_dict.geometry,
     was_displaced |-> FALSE,
     displacement_vector |-> <<0, 0>>,
     displacement_magnitude |-> 0,
     conflicts |-> <<>>,
     translated_geometry |-> feat_dict.geometry,
     displacement_history |-> <<>>]

\* _calculate_displacements: one turn of the "apply displacements" loop
DisplaceFeature ==
    /\ pc = "displace"
    /\ m <= Len(parsed_features)
    /\ LET feat_dict == parsed_features[m]
           feature_id == feat_dict.feature.id
       IN  displacement_results' =
               DictPut(displacement_results,
                   IF feature_id \in DOMAIN features_to_displace
                   THEN DisplacedInfo(precision_overlap_detector[1],
                                      displacement_calculator[1], parsed_features,
                                      junctions, feat_dict,
                                      features_to_displace[feature_id])
                   ELSE UndisplacedInfo(feat_dict))
    /\ m' = m + 1
    /\ pc' = IF m = Len(parsed_features) THEN "depth" ELSE "displace"
    /\ UNCHANGED <<calls, precision_detector, request, error, precision_overlap_detector, displacement_calculator,
                   parsed_features, i, j, pair_count, overlaps, junctions, k,
                   features_to_displace, depth_metadata, result_args, response>>

\* process_geometries step 4.  assign_z_order reads FeaturePriority.HIGHWAY,
\* a member the enumeration does not have, for the first feature it visits
AssignDepth ==
    /\ pc = "depth"
    /\ IF request.enable_3d_depth
       THEN Raise("AttributeError")
       ELSE pc' = "build" /\ error' = error
    /\ depth_metadata' = <<>>
    /\ UNCHANGED <<calls, precision_detector, request, precision_overlap_detector, displacement_calculator,
                   parsed_features, i, j, pair_count, overlaps, junctions, k,
                   features_to_displace, m, displacement_results, result_args,
                   response>>

\* depth_meta.get(key, default)
DictGet(dict, key, default) == IF key \in DOMAIN dict THEN dict[key] ELSE default

\* the z_index _build_results falls back to
DefaultZIndex == 100

\* _build_results: the ConflictMetadata list of one feature; z_index is an
\* Optional[int] field, here always given a value
ConflictMetadataList(disp_info, depth) ==
    [c \in 1..Len(disp_info.conflicts) |->
        LET depth_meta == DictGet(depth, disp_info.feature_id, <<>>)
        IN  [conflict_pair |-> << disp_info.feature_id,
                                  OtherId(disp_info.conflicts[c], disp_info.feature_id) >>,
             overlap_amount |-> disp_info.conflicts[c].severity_score,
             displacement_vector |-> disp_info.displacement_vector,
             z_index |-> Some(DictGet(depth_meta, "z_index", DefaultZIndex)),
             visual_depth_flag |-> DictGet(depth_meta, "visual_depth_flag", FALSE)]]

\* _build_results: the keyword arguments of one DisplacementResult(...)
ResultArgs(disp_info, depth) ==
    [feature_id |-> disp_info.feature_id,
     original_wkt |-> disp_info.feature.wkt,
     corrected_wkt |-> to_wkt(disp_info.displaced_geometry),
     was_displaced |-> disp_info.was_displaced,
     displacement_magnitude |-> disp_info.displacement_magnitude,
     conflicts |-> ConflictMetadataList(disp_info, depth)]

\* process_geometries step 5
BuildResults ==
    /\ pc = "build"
    /\ result_args' = [n \in 1..Len(displacement_results) |->
                          ResultArgs(displacement_results[n], depth_metadata)]
    /\ pc' = "validate"
    /\ UNCHANGED <<calls, precision_detector, request, error, precision_overlap_detector, displacement_calculator,
                   parsed_features, i, j, pair_count, overlaps, junctions, k,
                   features_to_displace, m, displacement_results, depth_metadata,
                   response>>

\* DisplacementResult(**kwargs): the model class declares feature_id,
\* original_wkt, corrected_wkt, was_displaced and metadata; pydantic drops
\* keyword arguments that are no field
DisplacementResult(kwargs) ==
    [feature_id |-> kwargs.feature_id,
     original_wkt |-> kwargs.original_wkt,
     corrected_wkt |-> kwargs.corrected_wkt,
     was_displaced |-> kwargs.was_displaced,
     metadata |-> None]

\* process_geometries step 6 and the return
ValidateTopology ==
    /\ pc = "validate"
    /\ response' =
           Some([results |-> [n \in 1..Len(result_args) |->
                                 DisplacementResult(result_args[n])],
                 total_conflicts_resolved |-> Len(overlaps),
                 topology_preserved |->
                     validate_topology(SnapTolerance, parsed_features,
                         [n \in 1..Len(displacement_results) |->
                             [feature |-> displacement_results[n].feature,
                              geometry |-> displacement_results[n].displaced_geometry]])])
    /\ pc' = "done"
    /\ UNCHANGED <<calls, precision_detector, request, error, precision_overlap_detector, displacement_calculator,
                   parsed_features, i, j, pair_count, overlaps, junctions, k,
                   features_to_displace, m, displacement_results, depth_metadata,
                   result_args>>

Next ==
    \/ Start
    \/ DetectPair
    \/ DetectSummary
    \/ FindJunctions
    \/ GroupOverlap
    \/ DisplaceFeature
    \/ AssignDepth
    \/ BuildResults
    \/ ValidateTopology

Spec == Init /\ [][Next]_vars

\* ------------------------------------------------------------------------
\* Two calls of process_geometries on the one GeometryProcessor of routes.py
\* ------------------------------------------------------------------------
\* Each call assigns the services to self and reads them back from self at
\* every later use; a step below is one such assignment or read.  The calls'
\* features play no part: what is followed is which object each call uses.
CallIds == {1, 2}

\* min_clearance and force_strength of the requests of the two calls
CallRequests ==
    [min_clearance : {1000, DefaultMinClearance},
     force_strength : {DefaultForceStrength, 1500}]

\* the variables of the single call followed by Spec
call_locals ==
    <<request, pc, error, parsed_features, i, j, pair_count, overlaps, junctions, k,
      features_to_displace, m, displacement_results, depth_metadata, result_args,
      response, precision_detector>>

\* the locals of a call that has not run a statement yet
NewCall(call_request) ==
    [request |-> call_request,
     pc |-> "new",
     detection_detector |-> None,
     clearance_violation |-> None,
     displacing_calculator |-> None]

InitShared ==
    /\ calls \in [CallIds -> {NewCall(r) : r \in CallRequests}]
    /\ precision_overlap_detector = None
    /\ displacement_calculator = None
    /\ request = [features |-> <<>>, min_clearance |-> DefaultMinClearance,
                  force_strength |-> DefaultForceStrength, enable_3d_depth |-> FALSE]
    /\ pc = "shared"
    /\ error = "none"
    /\ parsed_features = <<>>
    /\ i = 1
    /\ j = 2
    /\ pair_count = 0
    /\ overlaps = <<>>
    /\ junctions = <<>>
    /\ k = 1
    /\ features_to_displace = <<>>
    /\ m = 1
    /\ displacement_results = <<>>
    /\ depth_metadata = <<>>
    /\ result_args = <<>>
    /\ response = None
    /\ precision_detector = ModuleDetector

\* self.precision_overlap_detector = PrecisionOverlapDetector(...)
CallSetDetector(c) ==
    /\ calls[c].pc = "new"
    /\ precision_overlap_detector' =
           Some(PrecisionOverlapDetector(calls[c].request.min_clearance, TRUE))
    /\ calls' = [calls EXCEPT ![c].pc = "detector_set"]
    /\ UNCHANGED <<displacement_calculator, call_locals>>

\* self.displacement_calculator = DisplacementCalculator(...)
CallSetCalculator(c) ==
    /\ calls[c].pc = "detector_set"
    /\ displacement_calculator' =
           Some(DisplacementCalculator(calls[c].request.force_strength))
    /\ calls' = [calls EXCEPT ![c].pc = "services_set"]
    /\ UNCHANGED <<precision_overlap_detector, call_locals>>

\* self.precision_overlap_detector.detect_overlaps(request.features)
CallDetect(c) ==
    /\ calls[c].pc = "services_set"
    /\ calls' = [calls EXCEPT ![c].pc = "detected",
                              ![c].detection_detector = precision_overlap_detector]
    /\ UNCHANGED <<precision_overlap_detector, displacement_calculator, call_locals>>

\* 'clearance_violation': self.precision_overlap_detector.min_clearance
CallReadClearance(c) ==
    /\ calls[c].pc = "detected"
    /\ calls' = [calls EXCEPT ![c].pc = "clearance_read",
                              ![c].clearance_violation =
                                  Some(precision_overlap_detector[1].min_clearance)]
    /\ UNCHANGED <<precision_overlap_detector, displacement_calculator, call_locals>>

\* self.displacement_calculator.displace_feature(...)
CallDisplace(c) ==
    /\ calls[c].pc = "clearance_read"
    /\ calls' = [calls EXCEPT ![c].pc = "displaced",
                              ![c].displacing_calculator = displacement_calculator]
    /\ UNCHANGED <<precision_overlap_detector, displacement_calculator, call_locals>>

\* return GeometryResponse(...)
CallReturn(c) ==
    /\ calls[c].pc = "displaced"
    /\ calls' = [calls EXCEPT ![c].pc = "returned"]
    /\ UNCHANGED <<precision_overlap_detector, displacement_calculator, call_locals>>

NextShared ==
    \/ \E c \in CallIds : CallSetDetector(c)
    \/ \E c \in CallIds : CallSetCalculator(c)
    \/ \E c \in CallIds : CallDetect(c)
    \/ \E c \in CallIds : CallReadClearance(c)
    \/ \E c \in CallIds : CallDisplace(c)
    \/ \E c \in CallIds : CallReturn(c)

SpecShared == InitShared /\ [][NextShared]_vars

\* ------------------------------------------------------------------------
\* The features of tests/test_precision_detection.py, two per request
\* ------------------------------------------------------------------------
\* highway_001, road_001, road_002 and highway_002 as the test writes them
\* (road_003 is diagonal), and road_001 and road_002 written from their last
\* vertex to their first, which turns their bearings to 180 and -90.
highway_001 ==
    [wkt |-> WktText("LINESTRING", Line2(0, 0, 100000, 0), FALSE),
     priority |-> "P1_HIGHWAY"]

road_001 ==
    [wkt |-> WktText("LINESTRING", Line2(0, 2000, 100000, 2000), FALSE),
     priority |-> "P2_ROAD"]

road_002 ==
    [wkt |-> WktText("LINESTRING", Line2(50000, -10000, 50000, 10000), FALSE),
     priority |-> "P2_ROAD"]

highway_002 ==
    [wkt |-> WktText("LINESTRING", Line2(10000, 1000, 90000, 1000), FALSE),
     priority |-> "P1_HIGHWAY"]

road_001_reversed ==
    [wkt |-> WktText("LINESTRING", Line2(100000, 2000, 0, 2000), FALSE),
     priority |-> "P2_ROAD"]

road_002_reversed ==
    [wkt |-> WktText("LINESTRING", Line2(50000, 10000, 50000, -10000), FALSE),
     priority |-> "P2_ROAD"]

ScenarioCatalogue ==
    {highway_001, road_001, road_002, highway_002, road_001_reversed,
     road_002_reversed}

\* min_clearance and force_strength are floats without a constraint: the
\* defaults, no clearance, no force and a stronger force
ScenarioClearances == {0, DefaultMinClearance}

ScenarioStrengths == {0, DefaultForceStrength, 1500}

ScenarioFeatures ==
    { << [id |-> FeatureIds[1], wkt |-> a.wkt, priority |-> a.priority],
         [id |-> FeatureIds[2], wkt |-> b.wkt, priority |-> b.priority] >>
      : a \in ScenarioCatalogue, b \in ScenarioCatalogue }

ScenarioRequests ==
    [features : ScenarioFeatures, min_clearance : ScenarioClearances,
     force_strength : ScenarioStrengths, enable_3d_depth : BOOLEAN]

\* GeometryProcessor.__init__ and the arrival of a request made of test features
InitScenario ==
    /\ request \in ScenarioRequests
    /\ pc = "start"
    /\ error = "none"
    /\ precision_overlap_detector = None
    /\ displacement_calculator = None
    /\ parsed_features = <<>>
    /\ i = 1
    /\ j = 2
    /\ pair_count = 0
    /\ overlaps = <<>>
    /\ junctions = <<>>
    /\ k = 1
    /\ features_to_displace = <<>>
    /\ m = 1
    /\ displacement_results = <<>>
    /\ depth_metadata = <<>>
    /\ result_args = <<>>
    /\ response = None
    /\ calls = <<>>
    /\ precision_detector = ModuleDetector

SpecScenario == InitScenario /\ [][Next]_vars

\* ------------------------------------------------------------------------
\* GeometryEngine.process_geometry, one call
\* ------------------------------------------------------------------------
\* _get_priority_value: 1 for P1_HIGHWAY, 2 for every other priority
get_priority_value(priority) == IF priority = "P1_HIGHWAY" THEN 1 ELSE 2

\* the branch on the priority values: feature1 is fixed only when its value
\* is the smaller one; otherwise, ties included, feature2 is fixed
EngineChoice(feature1, feature2) ==
    IF get_priority_value(feature1.priority) < get_priority_value(feature2.priority)
    THEN [fixed_feature |-> feature1, moving_feature |-> feature2]
    ELSE [fixed_feature |-> feature2, moving_feature |-> feature1]

\* detect_overlaps as a whole, from pair (a, b) on, for lists of well-formed
\* lines: the records of the conflicting pairs in loop order
RECURSIVE DetectFrom(_, _, _, _)
DetectFrom(det, features, a, b) ==
    IF a >= Len(features) THEN <<>>
    ELSE IF b > Len(features) THEN DetectFrom(det, features, a + 1, a + 2)
    ELSE (IF detect_all_conflicts(det, features[a], features[b]).has_any_conflict
          THEN << detect_all_conflicts(det, features[a], features[b]) >>
          ELSE <<>>)
         \o DetectFrom(det, features, a, b + 1)

detect_overlaps(det, features) == DetectFrom(det, features, 1, 2)

\* Requests to the engine: two parallel lines 2 apart, or 20 apart, with every
\* pair of priorities
EngineFeatures ==
    { << [id |-> FeatureIds[1],
          wkt |-> WktText("LINESTRING", Line2(0, 0, 10000, 0), TRUE),
          priority |-> p1],
         [id |-> FeatureIds[2],
          wkt |-> WktText("LINESTRING", Line2(0, y, 10000, y), TRUE),
          priority |-> p2] >>
      : p1 \in FeaturePriority, p2 \in FeaturePriority, y \in {2000, 20000} }

EngineRequests ==
    [features : EngineFeatures, min_clearance : {DefaultMinClearance},
     force_strength : {DefaultForceStrength}, enable_3d_depth : {FALSE}]

\* the repulsion strength GeometryEngine.__init__ gives its calculator
EngineRepulsionStrength == 1500

\* GeometryEngine.__init__ and the arrival of a request
InitEngine ==
    /\ request \in EngineRequests
    /\ pc = "engine_start"
    /\ error = "none"
    /\ precision_overlap_detector = None
    /\ displacement_calculator = Some(DisplacementCalculator(EngineRepulsionStrength))
    /\ parsed_features = <<>>
    /\ i = 1
    /\ j = 2
    /\ pair_count = 0
    /\ overlaps = <<>>
    /\ junctions = <<>>
    /\ k = 1
    /\ features_to_displace = <<>>
    /\ m = 1
    /\ displacement_results = <<>>
    /\ depth_metadata = <<>>
    /\ result_args = <<>>
    /\ response = None
    /\ calls = <<>>
    /\ precision_detector = ModuleDetector

\* the variables process_geometry does not use
engine_unused ==
    <<request, displacement_calculator, parsed_features, i, j, pair_count, junctions,
      k, features_to_displace, m, displacement_results, depth_metadata, result_args,
      calls, precision_detector>>

\* process_geometry step 1: the detector is built and detect_overlaps called
EngineDetect ==
    /\ pc = "engine_start"
    /\ precision_overlap_detector' =
           Some(PrecisionOverlapDetector(request.min_clearance, TRUE))
    /\ overlaps' = detect_overlaps(PrecisionOverlapDetector(request.min_clearance, TRUE),
                                   request.features)
    /\ pc' = "engine_detected"
    /\ UNCHANGED <<error, response, engine_unused>>

\* "if not overlaps": every feature is returned as it came
EngineReturnOriginals ==
    /\ pc = "engine_detected"
    /\ overlaps = <<>>
    /\ response' =
           Some([results |-> [n \in 1..NumFeatures |->
                                 [feature_id |-> request.features[n].id,
                                  original_wkt |-> request.features[n].wkt,
                                  corrected_wkt |-> request.features[n].wkt,
                                  was_displaced |-> FALSE,
                                  metadata |-> None]],
                 total_conflicts |-> 0,
                 total_displaced |-> 0])
    /\ pc' = "done"
    /\ UNCHANGED <<error, precision_overlap_detector, overlaps, engine_unused>>

\* "for idx1, idx2, overlap_area in overlaps": a record is a dict of six
\* keys, and unpacking it into three names raises ValueError
EngineUnpackConflict ==
    /\ pc = "engine_detected"
    /\ overlaps # <<>>
    /\ pc' = "engine_raised"
    /\ error' = "ValueError"
    /\ UNCHANGED <<precision_overlap_detector, overlaps, response, engine_unused>>

NextEngine ==
    \/ EngineDetect
    \/ EngineReturnOriginals
    \/ EngineUnpackConflict

SpecEngine == InitEngine /\ [][NextEngine]_vars

\* ------------------------------------------------------------------------
\* The /detect-conflicts route, request after request
\* ------------------------------------------------------------------------
\* A highway and a road beside it at several distances, or the highway
\* alone, with a min_clearance below, at and above the default
RouteFeatures ==
    { << [id |-> FeatureIds[1],
          wkt |-> WktText("LINESTRING", Line2(0, 0, 10000, 0), FALSE),
          priority |-> "P1_HIGHWAY"],
         [id |-> FeatureIds[2],
          wkt |-> WktText("LINESTRING", Line2(0, y, 10000, y), FALSE),
          priority |-> "P2_ROAD"] >>
      : y \in {2000, 5500, 6000, 20000} }
    \cup { << [id |-> FeatureIds[1],
               wkt |-> WktText("LINESTRING", Line2(0, 0, 10000, 0), FALSE),
               priority |-> "P1_HIGHWAY"] >> }

RouteRequests ==
    [features : RouteFeatures, min_clearance : {1000, DefaultMinClearance, 3000},
     force_strength : {DefaultForceStrength}, enable_3d_depth : {FALSE}]

\* the import of routes.py, no request received yet
InitRoute ==
    /\ request = [features |-> <<>>, min_clearance |-> DefaultMinClearance,
                  force_strength |-> DefaultForceStrength, enable_3d_depth |-> FALSE]
    /\ pc = "route_idle"
    /\ error = "none"
    /\ precision_overlap_detector = None
    /\ displacement_calculator = None
    /\ parsed_features = <<>>
    /\ i = 1
    /\ j = 2
    /\ pair_count = 0
    /\ overlaps = <<>>
    /\ junctions = <<>>
    /\ k = 1
    /\ features_to_displace = <<>>
    /\ m = 1
    /\ displacement_results = <<>>
    /\ depth_metadata = <<>>
    /\ result_args = <<>>
    /\ response = None
    /\ calls = <<>>
    /\ precision_detector = ModuleDetector

\* the variables the route does not use
route_unused ==
    <<precision_overlap_detector, displacement_calculator, parsed_features, i, j,
      pair_count, junctions, k, features_to_displace, m, displacement_results,
      depth_metadata, result_args, calls>>

\* a POST /detect-conflicts arrives
RouteReceive ==
    /\ pc = "route_idle"
    /\ request' \in RouteRequests
    /\ pc' = "route_called"
    /\ UNCHANGED <<error, overlaps, response, precision_detector, route_unused>>

\* detect_conflicts with two or more features: detection by the module-level
\* detector, then the report
RouteDetect ==
    /\ pc = "route_called"
    /\ NumFeatures >= 2
    /\ overlaps' = detect_overlaps(precision_detector, request.features)
    /\ response' =
           Some([summary |->
                    [total_features |-> NumFeatures,
                     total_pairs_checked |-> (NumFeatures * (NumFeatures - 1)) \div 2,
                     conflicting_pairs |->
                         Len(detect_overlaps(precision_detector, request.features)),
                     min_clearance_used |-> request.min_clearance,
                     strict_mode |-> precision_detector.strict_mode],
                 conflicts |-> detect_overlaps(precision_detector, request.features)])
    /\ error' = "none"
    /\ pc' = "route_idle"
    /\ UNCHANGED <<request, precision_detector, route_unused>>

\* detect_conflicts with fewer than two features: detect_overlaps divides by
\* pair_count = 0, and the route answers with HTTPException(status_code=500)
RouteFail ==
    /\ pc = "route_called"
    /\ NumFeatures < 2
    /\ error' = "HTTPException"
    /\ response' = None
    /\ pc' = "route_idle"
    /\ UNCHANGED <<request, overlaps, precision_detector, route_unused>>

NextRoute ==
    \/ RouteReceive
    \/ RouteDetect
    \/ RouteFail

SpecRoute == InitRoute /\ [][NextRoute]_vars

\* ------------------------------------------------------------------------
\* Properties of process_geometries
\* ------------------------------------------------------------------------
\* process_geometries has returned a response
Returned == pc = "done"

\* the DisplacementResult returned for a feature id
ResultFor(feature_id) ==
    response[1].results[CHOOSE n \in 1..Len(response[1].results) :
                            response[1].results[n].feature_id = feature_id]

\* the entry of the results dictionary for a feature id
InfoFor(feature_id) ==
    displacement_results[CHOOSE n \in 1..Len(displacement_results) :
                             displacement_results[n].feature_id = feature_id]

\* a result that reports its feature as not displaced, geometry as given
ReturnedUnchanged(result) ==
    /\ ~result.was_displaced
    /\ parse_wkt(result.corrected_wkt) = parse_wkt(result.original_wkt)

RanksDiffer(overlap) ==
    PriorityDigit(overlap.feature_priorities[1])
        # PriorityDigit(overlap.feature_priorities[2])

\* the id of the feature with the numerically lower rank
LowerRankId(overlap) ==
    IF PriorityDigit(overlap.feature_priorities[1])
           < PriorityDigit(overlap.feature_priorities[2])
    THEN overlap.feature_pair[1] ELSE overlap.feature_pair[2]

HigherRankId(overlap) ==
    IF PriorityDigit(overlap.feature_priorities[1])
           < PriorityDigit(overlap.feature_priorities[2])
    THEN overlap.feature_pair[2] ELSE overlap.feature_pair[1]

\* the conflict record is in a list of conflict records
InConflicts(overlap, conflicts) ==
    \E c \in 1..Len(conflicts) : conflicts[c] = overlap

\* C1 as stated: for every conflict record whose two features differ in rank,
\* the feature of the lower rank is returned with was_displaced = false and a
\* corrected geometry equal to its original geometry, whatever other conflicts
\* it takes part in.
C1_LowerRankNeverMoves ==
    Returned =>
        \A n \in 1..Len(overlaps) :
            RanksDiffer(overlaps[n]) =>
                ReturnedUnchanged(ResultFor(LowerRankId(overlaps[n])))

\* C1, amended: in a conflict between features of different rank the feature
\* of the lower rank is never the mover of that conflict (the record is not
\* among the conflicts it is displaced for), and it is returned with
\* was_displaced = false and its geometry unchanged when it is the mover of
\* no conflict at all.
C1_LowerRankFixedInItsConflict ==
    Returned =>
        \A n \in 1..Len(overlaps) :
            RanksDiffer(overlaps[n]) =>
                /\ ~InConflicts(overlaps[n],
                                InfoFor(LowerRankId(overlaps[n])).conflicts)
                /\ InConflicts(overlaps[n],
                               InfoFor(HigherRankId(overlaps[n])).conflicts)
                /\ (InfoFor(LowerRankId(overlaps[n])).conflicts = <<>>
                    => ReturnedUnchanged(ResultFor(LowerRankId(overlaps[n]))))

\* C1 witness: a response with a conflict between different ranks whose
\* lower-rank feature came back unchanged while the other one was displaced.
C1_Witness ==
    /\ Returned
    /\ \E n \in 1..Len(overlaps) :
        /\ RanksDiffer(overlaps[n])
        /\ ReturnedUnchanged(ResultFor(LowerRankId(overlaps[n])))
        /\ ResultFor(HigherRankId(overlaps[n])).was_displaced
        /\ parse_wkt(ResultFor(HigherRankId(overlaps[n])).corrected_wkt)
               # parse_wkt(ResultFor(HigherRankId(overlaps[n])).original_wkt)

\* a geometry had an endpoint at a junction (registered under its key)
HadEndpointAt(geometry, junction_point) ==
    \/ point_to_key(geometry[1]) = junction_point
    \/ point_to_key(geometry[Len(geometry)]) = junction_point

\* the junction is shared by at least two features of the request
SharedJunction(junction_point) ==
    Cardinality({n \in 1..Len(parsed_features) :
                    HadEndpointAt(parsed_features[n].geometry, junction_point)}) >= 2

\* C2 as stated: after process_geometries every feature that had an endpoint
\* at a junction shared by at least two features still has its start or end
\* point within the snap tolerance of the junction's original coordinate.
C2_TopologyInvariant ==
    Returned =>
        \A q \in 1..Len(junctions) :
            SharedJunction(junctions[q]) =>
                \A n \in 1..Len(parsed_features) :
                    HadEndpointAt(parsed_features[n].geometry, junctions[q]) =>
                        ConnectsAt(
                            parse_wkt(ResultFor(parsed_features[n].feature.id).corrected_wkt),
                            junctions[q], SnapTolerance)

\* no pair of the request fires any of the five detection strategies
NoPairFires ==
    \A a \in 1..NumFeatures : \A b \in (a + 1)..NumFeatures :
        ~detect_all_conflicts(precision_overlap_detector[1],
                              request.features[a], request.features[b]).has_any_conflict

RECURSIVE VectorSum(_)
VectorSum(vectors) ==
    IF vectors = <<>> THEN <<0, 0>>
    ELSE << Head(vectors)[1] + VectorSum(Tail(vectors))[1],
            Head(vectors)[2] + VectorSum(Tail(vectors))[2] >>

\* the vector computed for one conflict of a mover, on its own
VectorOfConflict(info, conflict) ==
    calculate_displacement_for_pair(
        displacement_calculator[1],
        feature_map(parsed_features, OtherId(conflict, info.feature_id)).feature,
        info.feature,
        precision_overlap_detector[1].min_clearance)

\* C4: the net vector of a mover is the component-wise sum of the vectors
\* computed individually for each of its conflicts, and every vertex of its
\* geometry before snapping is the original vertex plus that sum.
C4_Superposition ==
    \A n \in 1..Len(displacement_results) :
        displacement_results[n].conflicts # <<>> =>
            LET info == displacement_results[n]
                individual == [c \in 1..Len(info.conflicts) |->
                                  VectorOfConflict(info, info.conflicts[c])]
            IN  /\ info.displacement_vector = VectorSum(individual)
                /\ Len(info.translated_geometry) = Len(info.original_geometry)
                /\ \A v \in 1..Len(info.original_geometry) :
                    info.translated_geometry[v]
                        = << info.original_geometry[v][1] + VectorSum(individual)[1],
                             info.original_geometry[v][2] + VectorSum(individual)[2] >>

\* C4 witness: a mover of two or more conflicts whose net vector differs from
\* each of the individual vectors and is not zero.
C4_Witness ==
    \E n \in 1..Len(displacement_results) :
        /\ Len(displacement_results[n].conflicts) >= 2
        /\ displacement_results[n].displacement_vector # <<0, 0>>
        /\ \A c \in 1..Len(displacement_results[n].displacement_history) :
            displacement_results[n].displacement_history[c]
                # displacement_results[n].displacement_vector

\* a WKT text that parses into a polyline with at least two vertices
WellFormed(w) == w.tag = "LINESTRING" /\ Len(w.pts) >= 2

AllWellFormed == \A n \in 1..NumFeatures : WellFormed(request.features[n].wkt)

\* C5 as stated: a request with fewer than two (well-formed) features
\* completes without an error, with one result per feature and
\* total_conflicts_resolved = 0.
C5_FewerThanTwoFeatures ==
    (NumFeatures < 2 /\ AllWellFormed) =>
        /\ error = "none"
        /\ Returned =>
            /\ Len(response[1].results) = NumFeatures
            /\ response[1].total_conflicts_resolved = 0

Epsilon == 1

\* C7 as stated: a mover whose accumulated vector has a magnitude of at most
\* the epsilon is returned with was_displaced = false and its geometry
\* unchanged.
C7_EpsilonGuard ==
    Returned =>
        \A n \in 1..Len(displacement_results) :
            (/\ displacement_results[n].conflicts # <<>>
             /\ displacement_results[n].displacement_magnitude <= Epsilon)
            => ReturnedUnchanged(response[1].results[n])

\* the record was grouped under the feature id as its mover
IsMoverOf(feature_id, overlap) ==
    /\ feature_id \in DOMAIN features_to_displace
    /\ InConflicts(overlap, features_to_displace[feature_id])

\* position of a feature id in the request
PositionOf(feature_id) ==
    CHOOSE n \in 1..NumFeatures : request.features[n].id = feature_id

C9_FormatErrorBeforeDetection ==
    ~AllWellFormed =>
        /\ pc \in {"start", "error"}
        /\ pc = "error" => error = "ValueError"
        /\ pair_count = 0
        /\ junctions = <<>>
        /\ displacement_results = <<>>
        /\ response = None

\* the conflict records of all pairs of the request
CompleteConflictSet ==
    { detect_all_conflicts(precision_overlap_detector[1],
                           request.features[ab[1]], request.features[ab[2]]) :
        ab \in { p \in (1..NumFeatures) \X (1..NumFeatures) :
                   /\ p[1] < p[2]
                   /\ detect_all_conflicts(precision_overlap_detector[1],
                          request.features[p[1]],
                          request.features[p[2]]).has_any_conflict } }

\* a mover has been chosen or a displacement computed
DisplacementBegun ==
    \/ k > 1
    \/ features_to_displace # <<>>
    \/ m > 1
    \/ displacement_results # <<>>

\* C10: no mover is chosen and no displacement is computed before detection
\* has finished for all n(n-1)/2 pairs; displacement works on the complete
\* conflict set.
C10_DetectionBarrier ==
    DisplacementBegun =>
        /\ pair_count = (NumFeatures * (NumFeatures - 1)) \div 2
        /\ ~HasPair
        /\ { overlaps[n] : n \in 1..Len(overlaps) } = CompleteConflictSet
        /\ Len(overlaps) = Cardinality(CompleteConflictSet)

\* C10 witness: a mover is being displaced for two conflicts of a request
\* with three features after all three pairs were examined.
C10_Witness ==
    /\ pc = "displace"
    /\ NumFeatures = 3
    /\ pair_count = 3
    /\ \E n \in 1..Len(displacement_results) :
        Len(displacement_results[n].conflicts) >= 2

\* detect_overlaps has returned
DetectionDone ==
    pc \in {"junctions", "group", "displace", "depth", "build", "validate", "done"}

\* at least one of the five detection strategies fires for the pair
PairFires(feature1, feature2) ==
    \/ check_buffer_overlap(precision_overlap_detector[1], feature1, feature2).fired
    \/ check_centerline_proximity(precision_overlap_detector[1], feature1, feature2).fired
    \/ check_crossing_conflict(precision_overlap_detector[1], feature1, feature2).fired
    \/ check_parallel_conflict(precision_overlap_detector[1], feature1, feature2).fired
    \/ check_endpoint_conflict(precision_overlap_detector[1], feature1, feature2).fired

\* a record for the pair of ids is in the list detect_overlaps builds
Recorded(id1, id2) ==
    \E n \in 1..Len(overlaps) : overlaps[n].feature_pair = <<id1, id2>>

\* C11: every record of detect_overlaps has has_any_conflict true and a
\* non-empty conflicts_detected list, and a pair has a record if and only if
\* at least one of the five strategies fired for it.
C11_RecordIffFired ==
    /\ \A n \in 1..Len(overlaps) :
        /\ overlaps[n].has_any_conflict
        /\ overlaps[n].conflicts_detected # <<>>
    /\ DetectionDone =>
        \A a \in 1..NumFeatures : \A b \in (a + 1)..NumFeatures :
            Recorded(request.features[a].id, request.features[b].id)
                <=> PairFires(request.features[a], request.features[b])

\* C11 witness: detection returned with a record for one pair and none for
\* another pair of the same request.
C11_Witness ==
    /\ DetectionDone
    /\ \E a, b \in 1..NumFeatures :
        a < b /\ Recorded(request.features[a].id, request.features[b].id)
    /\ \E a, b \in 1..NumFeatures :
        a < b /\ ~Recorded(request.features[a].id, request.features[b].id)

\* the conflicts list a returned result carries (none when it has no such field)
ConflictsOf(result) ==
    IF "conflicts" \in DOMAIN result THEN result.conflicts ELSE <<>>

RECURSIVE TotalConflicts(_)
TotalConflicts(results) ==
    IF results = <<>> THEN 0
    ELSE Len(ConflictsOf(Head(results))) + TotalConflicts(Tail(results))

\* the result lists the conflict with the other feature of the pair
ListsConflict(result, other_id) ==
    \E c \in 1..Len(ConflictsOf(result)) :
        ConflictsOf(result)[c].conflict_pair = <<result.feature_id, other_id>>

\* C12 as stated: every detected conflict is listed by exactly one returned
\* result, that of its mover, which is one of the two ids of the pair, and the
\* lengths of the conflicts lists of the results sum to total_conflicts_resolved.
C12_ConflictsAttributedToMover ==
    Returned =>
        /\ \A n \in 1..Len(overlaps) :
            /\ get_conflict_priority(overlaps[n])
                   \in {overlaps[n].feature_pair[1], overlaps[n].feature_pair[2]}
            /\ ListsConflict(ResultFor(get_conflict_priority(overlaps[n])),
                             OtherId(overlaps[n], get_conflict_priority(overlaps[n])))
            /\ ~ListsConflict(ResultFor(OtherId(overlaps[n],
                                                get_conflict_priority(overlaps[n]))),
                              get_conflict_priority(overlaps[n]))
        /\ TotalConflicts(response[1].results)
               = response[1].total_conflicts_resolved

\* the quantized coordinate of a point is one of the junctions
AtJunction(point) ==
    \E q \in 1..Len(junctions) : junctions[q] = point_to_key(point)

\* what snapping is to leave at vertex v: the junction coordinate for an
\* endpoint whose original position lies at a junction, else the displaced vertex
SnappedVertex(info, v) ==
    IF v \in {1, Len(info.original_geometry)} /\ AtJunction(info.original_geometry[v])
    THEN point_to_key(info.original_geometry[v])
    ELSE info.translated_geometry[v]

\* C13 as stated: snapping sets each endpoint whose original position lies at
\* a junction to exactly that junction's coordinate, leaves every interior
\* vertex and every endpoint not at a junction where displacement put it, and
\* keeps the vertex count.
C13_SnapToOwnJunction ==
    \A n \in 1..Len(displacement_results) :
        displacement_results[n].conflicts # <<>> =>
            /\ Len(displacement_results[n].displaced_geometry)
                   = Len(displacement_results[n].translated_geometry)
            /\ \A v \in 1..Len(displacement_results[n].displaced_geometry) :
                displacement_results[n].displaced_geometry[v]
                    = SnappedVertex(displacement_results[n], v)

\* the endpoints (result, role) of the returned geometries that lie within
\* the snap tolerance of a junction coordinate
ConnectedEndpoints(junction_point) ==
    { e \in (1..Len(response[1].results)) \X {"start", "end"} :
        LET geometry == parse_wkt(response[1].results[e[1]].corrected_wkt)
        IN  Near(IF e[2] = "start" THEN geometry[1] ELSE geometry[Len(geometry)],
                 junction_point, SnapTolerance) }

\* C14 as stated: topology_preserved is true if and only if every junction of
\* the original features keeps at least two connected endpoints among the
\* returned geometries.
C14_ValidateIffTwoEndpoints ==
    Returned =>
        (response[1].topology_preserved
            <=> \A q \in 1..Len(junctions) :
                    Cardinality(ConnectedEndpoints(junctions[q])) >= 2)

\* find_junctions has returned
JunctionsFound == pc \in {"group", "displace", "depth", "build", "validate", "done"}

\* the endpoint of the geometry a feature of the request was sent with
OriginalEndpoint(n, role) ==
    IF role = "start" THEN parse_wkt(request.features[n].wkt)[1]
    ELSE parse_wkt(request.features[n].wkt)[Len(parse_wkt(request.features[n].wkt))]

\* the (feature, endpoint role) entries whose quantized coordinate is the key
EndpointEntries(key) ==
    { e \in (1..NumFeatures) \X {"start", "end"} :
        point_to_key(OriginalEndpoint(e[1], e[2])) = key }

C16_RequestIsolation ==
    \A c \in DOMAIN calls :
        /\ calls[c].detection_detector # None =>
            calls[c].detection_detector[1].min_clearance
                = calls[c].request.min_clearance
        /\ calls[c].clearance_violation # None =>
            calls[c].clearance_violation[1] = calls[c].request.min_clearance
        /\ calls[c].displacing_calculator # None =>
            calls[c].displacing_calculator[1].repulsion_strength
                = calls[c].request.force_strength

\* C17 as stated: with enable_3d_depth false every ConflictMetadata built for
\* the response has no z_index and visual_depth_flag false.
C17_NoDepthWithoutFlag ==
    ~request.enable_3d_depth =>
        \A n \in 1..Len(result_args) :
            \A c \in 1..Len(result_args[n].conflicts) :
                /\ result_args[n].conflicts[c].z_index = None
                /\ result_args[n].conflicts[c].visual_depth_flag = FALSE

\* severity scores given to a conflict set in place of the detected ones
SeverityChoices == {0, 77}

\* the conflict set with the severity score of conflict n replaced by scores[n]
WithSeverity(conflict_set, scores) ==
    [n \in 1..Len(conflict_set) |->
        [conflict_set[n] EXCEPT !.severity_score = scores[n]]]

\* the grouping loop of _calculate_displacements run on a conflict set
RECURSIVE GroupAll(_, _)
GroupAll(conflict_set, grouped) ==
    IF conflict_set = <<>> THEN grouped
    ELSE GroupAll(Tail(conflict_set),
                  AddConflict(grouped, get_conflict_priority(Head(conflict_set)),
                              Head(conflict_set)))

\* the "apply displacements" loop run from feature n on, for a grouping
RECURSIVE DisplaceAll(_, _, _)
DisplaceAll(grouped, n, results) ==
    IF n > Len(parsed_features) THEN results
    ELSE DisplaceAll(grouped, n + 1,
             DictPut(results,
                 IF parsed_features[n].feature.id \in DOMAIN grouped
                 THEN DisplacedInfo(precision_overlap_detector[1],
                                    displacement_calculator[1], parsed_features,
                                    junctions, parsed_features[n],
                                    grouped[parsed_features[n].feature.id])
                 ELSE UndisplacedInfo(parsed_features[n])))

\* what is decided for one feature: everything but the reported amounts
DecisionOf(info) ==
    [feature_id |-> info.feature_id,
     was_displaced |-> info.was_displaced,
     displacement_vector |-> info.displacement_vector,
     displacement_history |-> info.displacement_history,
     corrected_wkt |-> to_wkt(info.displaced_geometry),
     conflict_pairs |-> [c \in 1..Len(info.conflicts) |-> info.conflicts[c].feature_pair]]

DecisionsOf(results) == [n \in 1..Len(results) |-> DecisionOf(results[n])]

TopologyOf(results) ==
    validate_topology(SnapTolerance, parsed_features,
        [n \in 1..Len(results) |->
            [feature |-> results[n].feature,
             geometry |-> results[n].displaced_geometry]])

\* the movers are the keys of the grouping
SameDecisions(grouped, results) ==
    /\ DOMAIN grouped = DOMAIN features_to_displace
    /\ DecisionsOf(results) = DecisionsOf(displacement_results)
    /\ TopologyOf(results) = response[1].topology_preserved
    /\ [n \in 1..Len(results) |-> DisplacementResult(ResultArgs(results[n], <<>>))]
           = response[1].results

SameDecisionsFor(grouped) == SameDecisions(grouped, DisplaceAll(grouped, 1, <<>>))

\* C18: a conflict set that agrees with the detected one on pairs, priorities
\* and findings but carries other severity scores gives the same movers, the
\* same displacement vectors, corrected geometries and was_displaced flags,
\* and the same topology_preserved value.
C18_SeverityDecidesNothing ==
    Returned =>
        \A scores \in [1..Len(overlaps) -> SeverityChoices] :
            SameDecisionsFor(GroupAll(WithSeverity(overlaps, scores), <<>>))

\* a returned call with two conflicts of positive severity and a displaced mover
C18_Witness ==
    /\ Returned
    /\ Len(overlaps) >= 2
    /\ \A n \in 1..Len(overlaps) : overlaps[n].severity_score \notin SeverityChoices
    /\ \E n \in 1..Len(response[1].results) : response[1].results[n].was_displaced

\* the request holds the P1 line (0,0)-(100,0) and the P2 line (0,2)-(100,2),
\* at positions a and b
NearMissAt(a, b) ==
    /\ NumFeatures = 2
    /\ request.min_clearance = 2000
    /\ request.features[a].wkt = highway_001.wkt
    /\ request.features[a].priority = "P1_HIGHWAY"
    /\ request.features[b].wkt = road_001.wkt
    /\ request.features[b].priority = "P2_ROAD"

FindingTypes(overlap) ==
    {overlap.conflicts_detected[n].type : n \in 1..Len(overlap.conflicts_detected)}

\* the outcome of the scenario for the P1 line p1 and the P2 line p2
NearMissOutcome(p1, p2) ==
    /\ DetectionDone =>
        /\ Len(overlaps) = 1
        /\ {"BUFFER_OVERLAP", "PARALLEL_CONFLICT"} \subseteq FindingTypes(overlaps[1])
        /\ get_feature_width(p1) = 5000
        /\ get_feature_width(p2) = 3000
        /\ get_conflict_priority(overlaps[1]) = p2.id
    /\ Returned =>
        /\ ResultFor(p2.id).was_displaced
        /\ calculate_minimum_distance(parse_wkt(ResultFor(p2.id).corrected_wkt),
                                      parse_wkt(p1.wkt))
             > calculate_minimum_distance(parse_wkt(p2.wkt), parse_wkt(p1.wkt))
        /\ ReturnedUnchanged(ResultFor(p1.id))

\* C19 as stated: for the P1 line (0,0)-(100,0) of width 5 and the P2 line
\* (0,2)-(100,2) of width 3 with min_clearance 2.0, the buffer-overlap and the
\* parallel-conflict findings both fire, the P2 line is the mover, its distance
\* to the P1 line increases, and the P1 line is returned unchanged.
C19_ParallelNearMiss ==
    \A a, b \in 1..NumFeatures :
        NearMissAt(a, b) => NearMissOutcome(request.features[a], request.features[b])

\* C19 with the force named: the same outcome whenever the request's
\* force_strength is positive.
C19_ParallelNearMissWithForce ==
    \A a, b \in 1..NumFeatures :
        (NearMissAt(a, b) /\ request.force_strength > 0)
            => NearMissOutcome(request.features[a], request.features[b])

\* the scenario has been processed with a positive force and returned
C19_Witness ==
    /\ Returned
    /\ request.force_strength > 0
    /\ \E a, b \in 1..NumFeatures : NearMissAt(a, b)
    /\ \E n \in 1..Len(response[1].results) : response[1].results[n].was_displaced

\* both features are lines with a first and a last vertex
HaveBearings(feature1, feature2) ==
    /\ ParseOk(feature1.wkt) /\ Len(parse_wkt(feature1.wkt)) >= 2
    /\ ParseOk(feature2.wkt) /\ Len(parse_wkt(feature2.wkt)) >= 2

\* the lines are at a right angle: one runs along x, the other along y
Perpendicular(feature1, feature2) ==
    Abs(get_orientation(parse_wkt(feature1.wkt))) \in {0, 180}
        <=> Abs(get_orientation(parse_wkt(feature2.wkt))) = 90

\* what C20 says of the result of check_parallel_conflict for a pair
FoldedAsClaimed(feature1, feature2, parallel) ==
    /\ parallel.angle_difference \in 0..90
    /\ parallel.fired =>
        /\ parallel.angle_difference <= AngleThreshold
        /\ calculate_minimum_distance(parse_wkt(feature1.wkt), parse_wkt(feature2.wkt))
             < RequiredClearance(precision_overlap_detector[1], feature1, feature2)
    /\ Perpendicular(feature1, feature2) => ~parallel.fired

\* C20 as stated: the angular difference check_parallel_conflict computes lies
\* in [0, 90] for every pair of bearings, the test fires only when it is at
\* most 15 degrees and the lines are closer than the required clearance, and
\* two perpendicular lines are never classified as parallel.
C20_AngleFoldedInto0To90 ==
    precision_overlap_detector # None =>
        \A a, b \in 1..NumFeatures :
            (a < b /\ HaveBearings(request.features[a], request.features[b])) =>
                FoldedAsClaimed(request.features[a], request.features[b],
                    check_parallel_conflict(precision_overlap_detector[1],
                                            request.features[a], request.features[b]))

\* the record of detect_overlaps for the pair of ids, if there is one
RecordsOf(id1, id2) ==
    {n \in 1..Len(overlaps) : overlaps[n].feature_pair = <<id1, id2>>}

\* the area the two buffered footprints have in common
FootprintArea(feature1, feature2) ==
    IntersectionArea(get_feature_buffer(feature1), get_feature_buffer(feature2))

\* C21 as stated: in strict mode a record carries a BUFFER_OVERLAP finding
\* exactly when the two buffered footprints share a positive area; footprints
\* that only touch give no such finding.
C21_BufferOverlapIffPositiveArea ==
    DetectionDone =>
        \A a \in 1..NumFeatures : \A b \in (a + 1)..NumFeatures :
            (\E n \in RecordsOf(request.features[a].id, request.features[b].id) :
                 "BUFFER_OVERLAP" \in FindingTypes(overlaps[n]))
            <=> FootprintArea(request.features[a], request.features[b]) > 0

\* the loop of _calculate_displacements has handled every feature
DisplacementDone == pc \in {"depth", "build", "validate", "done"}

\* the vectors calculate_displacement_for_pair returned in this call: one per
\* conflict of every mover
PairVectors ==
    UNION { {displacement_results[n].displacement_history[c]
                : c \in 1..Len(displacement_results[n].displacement_history)}
            : n \in 1..Len(displacement_results) }

\* C22: the vector calculate_displacement_for_pair returns has the required
\* distance as its magnitude, whatever the centroid distance and the positive
\* repulsion strength; with required distance 0 or repulsion strength 0 it is
\* (0, 0), and the call returns.
C22_RescaledToRequiredDistance ==
    DisplacementDone =>
        \A v \in PairVectors :
            IF displacement_calculator[1].repulsion_strength = 0
               \/ precision_overlap_detector[1].min_clearance = 0
            THEN v = <<0, 0>>
            ELSE Hypot(v[1], v[2]) = precision_overlap_detector[1].min_clearance

\* a mover displaced with a force other than the default one
C22_Witness ==
    /\ DisplacementDone
    /\ PairVectors # {}
    /\ displacement_calculator[1].repulsion_strength
           \notin {0, DefaultForceStrength}
    /\ precision_overlap_detector[1].min_clearance > 0

\* the overlap_area of the BUFFER_OVERLAP finding of a record, 0 without one
OverlapAreaOf(overlap) ==
    IF \E n \in 1..Len(overlap.conflicts_detected) :
           overlap.conflicts_detected[n].type = "BUFFER_OVERLAP"
    THEN overlap.conflicts_detected[
             CHOOSE n \in 1..Len(overlap.conflicts_detected) :
                 overlap.conflicts_detected[n].type = "BUFFER_OVERLAP"].overlap_area
    ELSE 0

\* the conflicts of the movers with the magnitude of the vector computed for
\* each: <<overlap area, magnitude>>
AreaAndMagnitude ==
    UNION { { << OverlapAreaOf(displacement_results[n].conflicts[c]),
                 Hypot(displacement_results[n].displacement_history[c][1],
                       displacement_results[n].displacement_history[c][2]) >>
              : c \in 1..Len(displacement_results[n].displacement_history) }
            : n \in 1..Len(displacement_results) }

\* C23 as stated: the distance each conflict's vector is scaled to is
\* sqrt(overlapArea) + minClearance for that conflict's overlap area, so
\* conflicts with different overlap areas get vectors of different magnitude.
C23_DistanceFromOverlapArea ==
    DisplacementDone =>
        /\ \A am \in AreaAndMagnitude :
            am[2] = calculate_displacement_distance(precision_overlap_detector[1], am[1])
        /\ \A am1, am2 \in AreaAndMagnitude : am1[1] # am2[1] => am1[2] # am2[2]

\* the pairs (fixed line, moving line) calculate_repulsion_vector was called
\* with: for every mover, the other feature of each of its conflicts
RepulsionCalls ==
    UNION { { << parse_wkt(feature_map(parsed_features,
                     OtherId(displacement_results[n].conflicts[c],
                             displacement_results[n].feature_id)).feature.wkt),
                 parse_wkt(displacement_results[n].feature.wkt) >>
              : c \in 1..Len(displacement_results[n].conflicts) }
            : n \in 1..Len(displacement_results) }

Sign(x) == IF x > 0 THEN 1 ELSE IF x < 0 THEN -1 ELSE 0

CentroidsCoincide(line1, line2) ==
    Hypot(Centroid(line2)[1] - Centroid(line1)[1],
          Centroid(line2)[2] - Centroid(line1)[2]) < 10

\* v points from the centroid of line1 to the centroid of line2
PointsAway(v, line1, line2) ==
    /\ Sign(v[1]) = Sign(Centroid(line2)[1] - Centroid(line1)[1])
    /\ Sign(v[2]) = Sign(Centroid(line2)[2] - Centroid(line1)[2])

\* v shifts along +x
AlongPlusX(v) == v[1] > 0 /\ v[2] = 0

OriginalFeature(feature_id) ==
    request.features[CHOOSE n \in 1..NumFeatures : request.features[n].id = feature_id]

\* every vertex of the translated line is the original vertex plus the vector
RigidlyTranslated(info) ==
    /\ info.original_geometry = parse_wkt(OriginalFeature(info.feature_id).wkt)
    /\ Len(info.translated_geometry) = Len(info.original_geometry)
    /\ Len(info.displaced_geometry) = Len(info.original_geometry)
    /\ \A v \in 1..Len(info.original_geometry) :
        info.translated_geometry[v]
            = << info.original_geometry[v][1] + info.displacement_vector[1],
                 info.original_geometry[v][2] + info.displacement_vector[2] >>

\* the vector is the sum of the per-conflict vectors, each computed from the
\* other feature as the request sent it
FromOriginals(info) ==
    /\ info.displacement_vector = VectorSum(info.displacement_history)
    /\ Len(info.displacement_history) = Len(info.conflicts)
    /\ \A c \in 1..Len(info.conflicts) :
        info.displacement_history[c]
            = calculate_displacement_for_pair(
                  displacement_calculator[1],
                  OriginalFeature(OtherId(info.conflicts[c], info.feature_id)),
                  OriginalFeature(info.feature_id),
                  precision_overlap_detector[1].min_clearance)

\* C25: a feature is translated once, by its accumulated vector: every vertex
\* of a mover is shifted by the same (dx, dy), the vertex count and order are
\* kept, and the vector is computed from the original geometries of the other
\* features only, also when those have already been displaced in the call.
C25_TranslatedOnceFromOriginals ==
    \A n \in 1..Len(displacement_results) :
        /\ RigidlyTranslated(displacement_results[n])
        /\ FromOriginals(displacement_results[n])

\* a mover with three vertices has been displaced away from a feature that was
\* itself displaced earlier in the call
C25_Witness ==
    \E n, n2 \in 1..Len(displacement_results) :
        /\ n2 < n
        /\ displacement_results[n2].displaced_geometry
               # displacement_results[n2].original_geometry
        /\ \E c \in 1..Len(displacement_results[n].conflicts) :
            OtherId(displacement_results[n].conflicts[c],
                    displacement_results[n].feature_id)
                = displacement_results[n2].feature_id
        /\ displacement_results[n].displacement_vector # <<0, 0>>
        /\ \E n3 \in 1..Len(displacement_results) :
            /\ Len(displacement_results[n3].original_geometry) = 3
            /\ displacement_results[n3].displacement_vector # <<0, 0>>

\* detect_overlaps is running or has returned
DetectionRunning == pc = "detect" \/ DetectionDone

\* the pair of positions (a, b) has been examined by the loops
Examined(a, b) ==
    /\ a < b /\ b <= NumFeatures
    /\ pc = "detect" => (a < i \/ (a = i /\ b < j))

ExaminedPairs == {ab \in (1..NumFeatures) \X (1..NumFeatures) : Examined(ab[1], ab[2])}

\* the positions of the two features of a record
PositionsOf(overlap) ==
    CHOOSE ab \in (1..NumFeatures) \X (1..NumFeatures) :
        overlap.feature_pair = <<request.features[ab[1]].id, request.features[ab[2]].id>>

\* (a, b) comes before (c, d) in lexicographic order
LexBefore(ab, cd) == ab[1] < cd[1] \/ (ab[1] = cd[1] /\ ab[2] < cd[2])

\* the strategies that fire for a pair, each evaluated on its own
FiringTypes(feature1, feature2) ==
    (IF check_buffer_overlap(precision_overlap_detector[1], feature1, feature2).fired
     THEN {"BUFFER_OVERLAP"} ELSE {})
    \cup (IF check_centerline_proximity(precision_overlap_detector[1],
                                        feature1, feature2).fired
          THEN {"CENTERLINE_PROXIMITY"} ELSE {})
    \cup (IF check_crossing_conflict(precision_overlap_detector[1],
                                     feature1, feature2).fired
          THEN {"CROSSING_CONFLICT"} ELSE {})
    \cup (IF check_parallel_conflict(precision_overlap_detector[1],
                                     feature1, feature2).fired
          THEN {"PARALLEL_CONFLICT"} ELSE {})
    \cup (IF check_endpoint_conflict(precision_overlap_detector[1],
                                     feature1, feature2).fired
          THEN {"ENDPOINT_CONFLICT"} ELSE {})

\* C26: detect_overlaps examines every pair i < j once, n(n-1)/2 in all; the
\* record of a pair holds the finding of each of the five strategies that
\* fires for it, whatever the others found; the records are in (i, j)
\* lexicographic order and store the pair as (features[i].id, features[j].id).
C26_AllPairsAllStrategies ==
    DetectionRunning =>
        /\ pair_count = Cardinality(ExaminedPairs)
        /\ DetectionDone => pair_count = (NumFeatures * (NumFeatures - 1)) \div 2
        /\ \A n \in 1..Len(overlaps) :
            /\ \E ab \in ExaminedPairs :
                overlaps[n].feature_pair
                    = <<request.features[ab[1]].id, request.features[ab[2]].id>>
            /\ FindingTypes(overlaps[n])
                   = FiringTypes(request.features[PositionsOf(overlaps[n])[1]],
                                 request.features[PositionsOf(overlaps[n])[2]])
            /\ Cardinality(FindingTypes(overlaps[n]))
                   = Len(overlaps[n].conflicts_detected)
            /\ \A n2 \in (n + 1)..Len(overlaps) :
                LexBefore(PositionsOf(overlaps[n]), PositionsOf(overlaps[n2]))
        /\ \A ab \in ExaminedPairs :
            FiringTypes(request.features[ab[1]], request.features[ab[2]]) # {}
                => Recorded(request.features[ab[1]].id, request.features[ab[2]].id)

\* detection of three features has returned a record with three or more
\* findings and a record whose first strategy found nothing
C26_Witness ==
    /\ DetectionDone
    /\ pair_count = 3
    /\ \E n \in 1..Len(overlaps) : Len(overlaps[n].conflicts_detected) >= 3
    /\ \E n \in 1..Len(overlaps) : "BUFFER_OVERLAP" \notin FindingTypes(overlaps[n])

\* the engine has found conflicts and is to resolve them
EngineHasConflicts == pc \in {"engine_detected", "engine_raised"} /\ overlaps # <<>>

\* C27 as stated: for a conflict between two features of different priority
\* rank, whatever the priority levels, GeometryEngine.process_geometry takes
\* the feature of numerically lower rank as fixed and the other as mover.
C27_EngineFixesLowerRank ==
    (EngineHasConflicts
     /\ PriorityDigit(request.features[1].priority)
            # PriorityDigit(request.features[2].priority))
    => /\ error = "none"
       /\ PriorityDigit(EngineChoice(request.features[1],
                                     request.features[2]).fixed_feature.priority)
            < PriorityDigit(EngineChoice(request.features[1],
                                         request.features[2]).moving_feature.priority)

\* /detect-conflicts has answered the request with a report
RouteAnswered == pc = "route_idle" /\ response # None

\* C28 as stated: the clearance detection applies in /detect-conflicts is the
\* request's min_clearance, the value reported as min_clearance_used, whatever
\* the request and the requests before it.
C28_ReportedClearanceIsApplied ==
    RouteAnswered =>
        /\ response[1].summary.min_clearance_used = request.min_clearance
        /\ precision_detector.min_clearance = response[1].summary.min_clearance_used
        /\ response[1].conflicts
               = detect_overlaps(PrecisionOverlapDetector(request.min_clearance, TRUE),
                                 request.features)

\* the finding of the given type in a record
FindingOf(overlap, type) ==
    overlap.conflicts_detected[
        CHOOSE n \in 1..Len(overlap.conflicts_detected) :
            overlap.conflicts_detected[n].type = type]

\* C29: a record with a PARALLEL_CONFLICT finding also has a
\* CENTERLINE_PROXIMITY finding, and both report the same distance.
C29_ParallelImpliesProximity ==
    \A n \in 1..Len(overlaps) :
        "PARALLEL_CONFLICT" \in FindingTypes(overlaps[n]) =>
            /\ "CENTERLINE_PROXIMITY" \in FindingTypes(overlaps[n])
            /\ FindingOf(overlaps[n], "PARALLEL_CONFLICT").parallel_distance
                   = FindingOf(overlaps[n], "CENTERLINE_PROXIMITY").minimum_distance

\* detection has returned a record with both findings and a record with a
\* proximity finding only
C29_Witness ==
    /\ DetectionDone
    /\ \E n \in 1..Len(overlaps) :
        /\ "PARALLEL_CONFLICT" \in FindingTypes(overlaps[n])
        /\ FindingOf(overlaps[n], "PARALLEL_CONFLICT").parallel_distance > 0
    /\ \E n \in 1..Len(overlaps) :
        /\ "PARALLEL_CONFLICT" \notin FindingTypes(overlaps[n])
        /\ "CENTERLINE_PROXIMITY" \in FindingTypes(overlaps[n])

\* C30 as stated: a result has was_displaced true only if its corrected
\* geometry differs from the original one and the displacement magnitude of
\* its feature is greater than 0, also when both endpoints were snapped back.
C30_DisplacedMeansMoved ==
    Returned =>
        \A n \in 1..Len(response[1].results) :
            response[1].results[n].was_displaced =>
                /\ parse_wkt(response[1].results[n].corrected_wkt)
                       # parse_wkt(response[1].results[n].original_wkt)
                /\ displacement_results[n].displacement_magnitude > 0

====
